---- MODULE Spec2Model ----
(***************************************************************************)
(* Image <-> tensor transcoding of the style-transfer front end:           *)
(* resizeAndCropImage, extractAndNormalizePixels, createONNXTensor,        *)
(* tensorToImageData (both revisions) and tensorToImageDataAuto.           *)
(*                                                                         *)
(* Numbers.  A JavaScript number is NaN, an infinity or a finite double,   *)
(* (-1)^neg * m * 2^(-e) with m a big natural: every operation computes    *)
(* the exact result and rounds it to 53 significant bits, ties to even, as *)
(* the engine does.  An element of a Float32Array is <<m, e>>, the float32 *)
(* m * 2^(-e) with m odd: storing into the array rounds to 24 significant  *)
(* bits.  mean and std are kept in thousandths, as the registry writes     *)
(* them, and enter the arithmetic as the doubles their literals stand for. *)
(***************************************************************************)
EXTENDS Integers, Sequences, FiniteSets, TLC

\* Bits of a digit of a big natural.
LimbBits == 15

Limb == 2^LimbBits

\* Significant bits of a double and of a float32.
Significand == 53

Significand32 == 24

\* mean / std are written with three decimals: 0.485 is 485 / Milli.
Milli == 1000

\* Largest width and height of a canvas, tensor plane or target image.
MaxDim == 2

\* Largest width and height of a decoded source image.
MaxSrc == 3

\* Largest number of calls the callers make on the useONNX hook, all together.
MaxCalls == 3

\* Largest number of loadModel() calls made on the handler of the pipeline.
MaxLoads == 2

\* Largest number of FileReaders of the page reading at the same time.
MaxReaders == 1

(***************************************************************************)
(* ProfileRegistry                                                         *)
(***************************************************************************)

\* PREPROCESSING_CONFIGS of the current revision (four profiles).
PREPROCESSING_CONFIGS ==
    [ default             |-> [width |-> 224, height |-> 224, channels |-> 3,
                               mean |-> <<485, 456, 406>>, std |-> <<229, 224, 225>>],
      styleTransfer       |-> [width |-> 224, height |-> 224, channels |-> 3,
                               mean |-> <<485, 456, 406>>, std |-> <<229, 224, 225>>],
      styleTransferSimple |-> [width |-> 224, height |-> 224, channels |-> 3,
                               mean |-> <<500, 500, 500>>, std |-> <<500, 500, 500>>],
      styleTransferNoNorm |-> [width |-> 224, height |-> 224, channels |-> 3,
                               mean |-> <<0, 0, 0>>, std |-> <<1000, 1000, 1000>>] ]

\* PREPROCESSING_CONFIGS of the revision bundled with ONNXModelHandler.
PREPROCESSING_CONFIGS_Handler ==
    [ default       |-> [width |-> 224, height |-> 224, channels |-> 3,
                         mean |-> <<485, 456, 406>>, std |-> <<229, 224, 225>>],
      styleTransfer |-> [width |-> 224, height |-> 224, channels |-> 3,
                         mean |-> <<485, 456, 406>>, std |-> <<229, 224, 225>>] ]

ConfigTypes == DOMAIN PREPROCESSING_CONFIGS

\* The value undefined.
Undefined == [typeof |-> "undefined"]

\* What the registry, an object literal, inherits from Object.prototype: the
\* methods of every object and the accessor __proto__, which gives the
\* prototype itself.  None of them has a width, a height, a mean or a std.
ObjectPrototype ==
    [ name \in { "constructor", "hasOwnProperty", "isPrototypeOf",
                 "propertyIsEnumerable", "toLocaleString", "toString", "valueOf",
                 "__defineGetter__", "__defineSetter__", "__lookupGetter__",
                 "__lookupSetter__", "__proto__" } |->
        [typeof |-> IF name = "__proto__" THEN "object" ELSE "function"] ]

\* PREPROCESSING_CONFIGS[name]: a plain property read.  It gives the profile
\* for a key of the registry, the inherited value for a name of
\* Object.prototype, and undefined for any other name.
ProfileOf(name) ==
    IF name \in DOMAIN PREPROCESSING_CONFIGS THEN PREPROCESSING_CONFIGS[name]
    ELSE IF name \in DOMAIN ObjectPrototype THEN ObjectPrototype[name]
    ELSE Undefined

\* value.property is undefined: the value has no such property.
Lacks(value, property) == property \notin DOMAIN value

(***************************************************************************)
(* Big naturals                                                            *)
(***************************************************************************)

\* The natural number n as a big natural: its digits in base Limb, the least
\* significant first, no leading zero digit.
RECURSIVE BigOf(_)
BigOf(n) == IF n = 0 THEN <<>> ELSE <<n % Limb>> \o BigOf(n \div Limb)

RECURSIVE BigTrim(_)
BigTrim(a) ==
    IF a = <<>> \/ a[Len(a)] # 0 THEN a ELSE BigTrim(SubSeq(a, 1, Len(a) - 1))

Digit(a, i) == IF i <= Len(a) THEN a[i] ELSE 0

RECURSIVE BigPlusFrom(_, _, _, _)
BigPlusFrom(a, b, i, carry) ==
    IF carry < 0 \/ (i > Len(a) /\ i > Len(b))
    THEN (IF carry = 0 THEN <<>> ELSE <<carry>>)
    ELSE LET v == Digit(a, i) + Digit(b, i) + carry
         IN  <<v % Limb>> \o BigPlusFrom(a, b, i + 1, v \div Limb)

BigPlus(a, b) == BigPlusFrom(a, b, 1, 0)

RECURSIVE BigMinusFrom(_, _, _, _)
BigMinusFrom(a, b, i, borrow) ==
    IF borrow < 0 \/ i > Len(a) THEN <<>>
    ELSE LET v == a[i] - Digit(b, i) - borrow
         IN  <<v % Limb>> \o BigMinusFrom(a, b, i + 1, IF v < 0 THEN 1 ELSE 0)

\* a - b for a >= b.
BigMinus(a, b) == BigTrim(BigMinusFrom(a, b, 1, 0))

RECURSIVE BigTimesFrom(_, _, _, _)
BigTimesFrom(a, c, i, carry) ==
    IF carry < 0 \/ i > Len(a) THEN (IF carry = 0 THEN <<>> ELSE <<carry>>)
    ELSE LET v == a[i] * c + carry
         IN  <<v % Limb>> \o BigTimesFrom(a, c, i + 1, v \div Limb)

\* a * c for 0 <= c < Limb.
BigTimes(a, c) == IF c = 0 THEN <<>> ELSE BigTimesFrom(a, c, 1, 0)

BigShiftLimbs(a, k) == IF a = <<>> THEN <<>> ELSE [i \in 1 .. k |-> 0] \o a

RECURSIVE BigMulFrom(_, _, _)
BigMulFrom(a, b, i) ==
    IF i > Len(b) THEN <<>>
    ELSE BigPlus(BigShiftLimbs(BigTimes(a, b[i]), i - 1), BigMulFrom(a, b, i + 1))

BigMul(a, b) == BigMulFrom(a, b, 1)

BigLess(a, b) ==
    IF Len(a) # Len(b) THEN Len(a) < Len(b)
    ELSE \E i \in 1 .. Len(a) : a[i] < b[i] /\ \A j \in i + 1 .. Len(a) : a[j] = b[j]

BigLeq(a, b) == ~BigLess(b, a)

\* Number of bits of a big natural: 0 for zero.
BigBits(a) ==
    IF a = <<>> THEN 0
    ELSE (Len(a) - 1) * LimbBits
             + (CHOOSE k \in 1 .. LimbBits : 2^(k - 1) <= a[Len(a)] /\ a[Len(a)] < 2^k)

\* a * 2^k.
BigShiftLeft(a, k) == BigTimes(BigShiftLimbs(a, k \div LimbBits), 2^(k % LimbBits))

\* floor(a / 2^k).
BigShiftRight(a, k) ==
    LET s == SubSeq(a, (k \div LimbBits) + 1, Len(a))
        r == k % LimbBits
    IN  BigTrim([ i \in 1 .. Len(s) |->
                    (s[i] \div 2^r) + (Digit(s, i + 1) % 2^r) * 2^(LimbBits - r) ])

\* The largest d <= hi with b * d <= r.
RECURSIVE BigDigitFrom(_, _, _)
BigDigitFrom(r, b, d) ==
    IF d = 0 \/ BigLeq(BigTimes(b, d), r) THEN d ELSE BigDigitFrom(r, b, d - 1)

\* floor(r / b) for r < b * Limb: the quotient of the two highest digits of r
\* by the highest digit of b is never below it, and at most 2 above it when
\* that digit of b is Limb / 2 or more.
BigDigit(r, b) ==
    LET n == Len(b)
        est == (Digit(r, n + 1) * Limb + Digit(r, n)) \div b[n]
    IN  BigDigitFrom(r, b, IF est < Limb THEN est ELSE Limb - 1)

\* floor(a / b) and a % b for b > 0, digit by digit from the highest digit of
\* a: q holds the digits found, r what is left of the digits read.
RECURSIVE BigDivModFrom(_, _, _, _, _)
BigDivModFrom(a, b, i, q, r) ==
    IF i = 0 \/ Len(q) < 0 \/ Len(r) < 0 THEN <<BigTrim(q), r>>
    ELSE LET r2 == BigTrim(<<a[i]>> \o r)
             d == BigDigit(r2, b)
         IN  BigDivModFrom(a, b, i - 1, <<d>> \o q, BigMinus(r2, BigTimes(b, d)))

\* floor(a / b) and a % b for b > 0: both are first multiplied by the power of
\* two that brings the highest digit of b to Limb / 2 or more.
BigDivMod(a, b) ==
    LET t == (LimbBits - (BigBits(b) % LimbBits)) % LimbBits
        a2 == BigShiftLeft(a, t)
        qr == BigDivModFrom(a2, BigShiftLeft(b, t), Len(a2), <<>>, <<>>)
    IN  <<qr[1], BigShiftRight(qr[2], t)>>

\* Bit j (the lowest is bit 0) of a.
BigBit(a, j) == (Digit(a, (j \div LimbBits) + 1) \div 2^(j % LimbBits)) % 2

\* Whether the k lowest bits of a are all 0.
BigLowZero(a, k) ==
    /\ \A i \in 1 .. k \div LimbBits : Digit(a, i) = 0
    /\ Digit(a, (k \div LimbBits) + 1) % 2^(k % LimbBits) = 0

\* Number of 0 bits below the lowest 1 bit of a # 0.
BigTrailingZeros(a) ==
    LET i == CHOOSE j \in 1 .. Len(a) : a[j] # 0 /\ \A h \in 1 .. j - 1 : a[h] = 0
    IN  (i - 1) * LimbBits
            + (CHOOSE k \in 0 .. LimbBits - 1 : a[i] % 2^(k + 1) # 0 /\ a[i] % 2^k = 0)

\* A big natural below Limb^2 as an integer.
BigValue(a) == Digit(a, 1) + Limb * Digit(a, 2)

(***************************************************************************)
(* JavaScript numbers                                                      *)
(***************************************************************************)

NaN == [kind |-> "NaN"]

Infinity(neg) == [kind |-> "Infinity", neg |-> neg]

\* The finite number (-1)^neg * m * 2^(-e), m a big natural, in its one form:
\* m odd, or m zero with e = 0.  The sign of a zero is not kept: nothing done
\* with these numbers tells -0 from +0.
Finite(neg, m, e) ==
    IF m = <<>> THEN [kind |-> "finite", neg |-> FALSE, m |-> <<>>, e |-> 0]
    ELSE IF m[1] % 2 = 1 THEN [kind |-> "finite", neg |-> neg, m |-> m, e |-> e]
    ELSE LET z == BigTrailingZeros(m)
         IN  [kind |-> "finite", neg |-> neg, m |-> BigShiftRight(m, z), e |-> e - z]

IsNaN(x) == x.kind = "NaN"

IsFinite(x) == x.kind = "finite"

\* (-1)^neg * (m + t) * 2^(-e), with 0 < t < 1 when sticky and t = 0 when not,
\* rounded to the nearest number of that many significant bits, ties to even.
RoundTo(bits, neg, m, e, sticky) ==
    LET k == BigBits(m) - bits
        q == BigShiftRight(m, k)
        rest == sticky \/ ~BigLowZero(m, k - 1)
        up == BigBit(m, k - 1) = 1 /\ (rest \/ BigBit(q, 0) = 1)
    IN  IF k <= 0 THEN Finite(neg, m, e)
        ELSE Finite(neg, IF up THEN BigPlus(q, <<1>>) ELSE q, e - k)

\* What an operation on doubles returns for the exact result x: the nearest
\* double.  (No number met here leaves the normal range of doubles.)
Rounded(x) == RoundTo(Significand, x.neg, x.m, x.e, FALSE)

\* The integer n as a number.
FromInt(n) == Finite(n < 0, BigOf(IF n < 0 THEN -n ELSE n), 0)

Zero == FromInt(0)

One == FromInt(1)

\* The float32 m * 2^(-e) in its one form: m odd, or <<0, 0>> for zero.
RECURSIVE Float32(_, _)
Float32(m, e) ==
    IF m = 0 THEN <<0, 0>>
    ELSE IF m % 2 = 0 THEN Float32(m \div 2, e - 1)
    ELSE <<m, e>>

\* The number a Float32Array element holds.
FromFloat32(v) == Finite(v[1] < 0, BigOf(IF v[1] < 0 THEN -v[1] ELSE v[1]), v[2])

\* Math.fround(x), the value stored into a Float32Array: the nearest number
\* of 24 significant bits, ties to even (x finite, in the normal range of
\* float32).
Fround(x) ==
    LET r == RoundTo(Significand32, x.neg, x.m, x.e, FALSE)
    IN  <<IF r.neg THEN -BigValue(r.m) ELSE BigValue(r.m), r.e>>

\* The magnitudes of x and y over the same power of two.
Aligned(x, y) ==
    LET e == IF x.e < y.e THEN y.e ELSE x.e
    IN  [x |-> BigShiftLeft(x.m, e - x.e), y |-> BigShiftLeft(y.m, e - y.e), e |-> e]

\* x < y for finite numbers.
Less(x, y) ==
    LET a == Aligned(x, y)
    IN  IF x.neg /\ ~y.neg THEN TRUE
        ELSE IF ~x.neg /\ y.neg THEN FALSE
        ELSE IF x.neg THEN BigLess(a.y, a.x) ELSE BigLess(a.x, a.y)

Negated(x) == [x EXCEPT !.neg = ~x.neg /\ x.m # <<>>]

\* | x | of a finite number.
Magnitude(x) == [x EXCEPT !.neg = FALSE]

\* The exact sum of two finite numbers.
ExactSum(x, y) ==
    LET a == Aligned(x, y)
    IN  IF x.neg = y.neg THEN Finite(x.neg, BigPlus(a.x, a.y), a.e)
        ELSE IF BigLess(a.x, a.y) THEN Finite(y.neg, BigMinus(a.y, a.x), a.e)
        ELSE Finite(x.neg, BigMinus(a.x, a.y), a.e)

\* The exact product of two finite numbers.
ExactProduct(x, y) == Finite(x.neg # y.neg, BigMul(x.m, y.m), x.e + y.e)

\* x + y, x - y and x * y on doubles: the exact result, rounded once.
Plus(x, y) == Rounded(ExactSum(x, y))

Minus(x, y) == Rounded(ExactSum(x, Negated(y)))

Times(x, y) == Rounded(ExactProduct(x, y))

\* Bits a quotient is computed to: two more than a double keeps.
QuotientBits == Significand + 2

\* x / y on doubles, y # 0: the quotient to QuotientBits bits or more and
\* whether anything is left over, rounded once.  A division by a power of two
\* is exact.
Over(x, y) ==
    LET s == IF QuotientBits + BigBits(y.m) > BigBits(x.m)
             THEN QuotientBits + BigBits(y.m) - BigBits(x.m) ELSE 0
        qr == BigDivMod(BigShiftLeft(x.m, s), y.m)
    IN  IF x.m = <<>> \/ y.m = <<1>> THEN Finite(x.neg # y.neg, x.m, x.e - y.e)
        ELSE RoundTo(Significand, x.neg # y.neg, qr[1], x.e - y.e + s, qr[2] # <<>>)

\* The double a decimal literal n / d stands for (0.485 is 485 / 1000): the
\* double nearest to the fraction.
Literal(n, d) == Over(FromInt(n), FromInt(d))

\* The doubles of the literals 0.001, 0.002, ... 1, computed once.
Thousandths == [k \in 1 .. Milli |-> Literal(k, Milli)] \o <<>>

\* mean[c] and std[c] of the registry, kept in thousandths, as doubles.
Thousandth(k) == IF k = 0 THEN Zero ELSE Thousandths[k]

\* byte / 255.0 for the bytes 1 .. 255, computed once.
Over255 == [byte \in 1 .. 255 |-> Over(FromInt(byte), FromInt(255))] \o <<>>

\* x * std + mean: a product and a sum of doubles, each rounded.
MulAdd(x, s, m) ==
    IF ~IsFinite(x) THEN x
    ELSE Plus(Times(x, Thousandth(s)), Thousandth(m))

\* Math.min(1, x): NaN stays NaN.
MathMin1(x) ==
    IF IsNaN(x) THEN NaN
    ELSE IF ~IsFinite(x) THEN (IF x.neg THEN x ELSE One)
    ELSE IF Less(One, x) THEN One ELSE x

\* Math.max(0, x): NaN stays NaN.
MathMax0(x) ==
    IF IsNaN(x) THEN NaN
    ELSE IF x.neg THEN Zero ELSE x

\* Math.min(255, x).
MathMin255(x) ==
    IF IsNaN(x) THEN NaN
    ELSE IF ~IsFinite(x) THEN (IF x.neg THEN x ELSE FromInt(255))
    ELSE IF Less(FromInt(255), x) THEN FromInt(255) ELSE x

\* x * 255.
Times255(x) ==
    IF ~IsFinite(x) THEN x ELSE Times(x, FromInt(255))

\* floor(x) for a finite x >= 0 below Limb^2, as an integer.
Floor(x) ==
    IF x.e <= 0 THEN BigValue(BigShiftLeft(x.m, -x.e))
    ELSE BigValue(BigShiftRight(x.m, x.e))

\* Math.round(x), the integer nearest to x and the larger one at a tie:
\* floor(x + 1/2), taken exactly; for NaN or 0 <= x <= 255.
MathRound(x) ==
    IF IsNaN(x) THEN NaN
    ELSE FromInt(Floor(ExactSum(x, Finite(FALSE, <<1>>, 1))))

\* Assignment into a Uint8ClampedArray: NaN becomes 0, the value is clamped
\* to [0, 255] and rounded to the nearest integer, ties to even.
ToUint8Clamped(x) ==
    IF IsNaN(x) THEN 0
    ELSE IF x.neg THEN 0
    ELSE IF ~IsFinite(x) THEN 255
    ELSE IF ~Less(x, FromInt(255)) THEN 255
    ELSE IF x.e <= 0 THEN Floor(x)
    ELSE IF BigBit(x.m, x.e - 1) = 0 THEN Floor(x)
    ELSE IF ~BigLowZero(x.m, x.e - 1) THEN Floor(x) + 1
    ELSE IF Floor(x) % 2 = 0 THEN Floor(x) ELSE Floor(x) + 1

\* data[idx] of a Float32Array in arithmetic: the element, or undefined, which
\* every operator turns into NaN, beyond the end.
At(data, idx) ==
    IF idx + 1 <= Len(data) THEN FromFloat32(data[idx + 1]) ELSE NaN

(***************************************************************************)
(* Resizer / Cropper                                                       *)
(***************************************************************************)

\* Arithmetic of resizeAndCropImage.  targetWidth / img.width and the values
\* derived from it are IEEE 754 doubles; a double is modelled exactly, as
\* [neg, mag]: a sign and a magnitude in binary fixed point, DblWidth bits,
\* most significant first, the last DblFrac of them after the binary point.
\* Every operation computes the exact result and rounds it to Significand
\* significant bits, ties to even, as the engine does.  The widths hold every
\* double this code computes from sizes below 2^12.
DblWidth == 96

DblFrac == 72

DblBit == 1 .. DblWidth

\* Index of the leading 1 of a magnitude, 0 for zero.
TopBit(mag) ==
    IF \A i \in DblBit : mag[i] = 0 THEN 0
    ELSE CHOOSE i \in DblBit : mag[i] = 1 /\ \A j \in 1 .. i - 1 : mag[j] = 0

\* The magnitude rounded to Significand significant bits, ties to even;
\* sticky tells that the exact value has non-zero bits past the last one.
RoundToDouble(mag, sticky) ==
    LET t == TopBit(mag)
        last == t + Significand - 1
    IN  IF t = 0 \/ last >= DblWidth THEN mag
        ELSE LET rest == sticky \/ \E i \in last + 2 .. DblWidth : mag[i] = 1
                 up == mag[last + 1] = 1 /\ (rest \/ mag[last] = 1)
                 j == CHOOSE k \in 1 .. last :
                          mag[k] = 0 /\ \A m \in k + 1 .. last : mag[m] = 1
             IN  [ i \in DblBit |->
                     IF i > last THEN 0
                     ELSE IF ~up THEN mag[i]
                     ELSE IF i < j THEN mag[i]
                     ELSE IF i = j THEN 1 ELSE 0 ] \o <<>>

\* The integer n (|n| < 2^(DblWidth - DblFrac)) as a double.
ToDouble(n) ==
    LET a == IF n < 0 THEN -n ELSE n
        w == DblWidth - DblFrac
    IN  [ neg |-> n < 0,
          mag |-> [ i \in DblBit |-> IF i > w THEN 0 ELSE (a \div 2^(w - i)) % 2 ] \o <<>> ]

\* Bits after the binary point of r / b (0 <= r < b), and what is left over.
RECURSIVE FractionBits(_, _, _)
FractionBits(r, b, n) ==
    IF n = 0 \/ r < 0 THEN <<>>
    ELSE <<(2 * r) \div b>> \o FractionBits((2 * r) % b, b, n - 1)

RECURSIVE FractionRest(_, _, _)
FractionRest(r, b, n) ==
    IF n = 0 \/ r < 0 THEN r ELSE FractionRest((2 * r) % b, b, n - 1)

\* a / b for integers a and b > 0.
DoubleDivide(a, b) ==
    LET m == IF a < 0 THEN -a ELSE a
        whole == ToDouble(m \div b).mag
        frac == FractionBits(m % b, b, DblFrac)
        exact == [ i \in DblBit |->
                     IF i <= DblWidth - DblFrac THEN whole[i]
                     ELSE frac[i - (DblWidth - DblFrac)] ] \o <<>>
    IN  [ neg |-> a < 0,
          mag |-> RoundToDouble(exact, FractionRest(m % b, b, DblFrac) # 0) ]

\* mag * k for an integer k >= 0, bit by bit from the last one: bits i + 1 ..
\* DblWidth of the product are in done, carry comes from bit i + 1.
RECURSIVE TimesFrom(_, _, _, _, _)
TimesFrom(mag, k, i, carry, done) ==
    IF i = 0 \/ carry < 0 \/ Len(done) < 0 THEN done
    ELSE LET v == mag[i] * k + carry
         IN  TimesFrom(mag, k, i - 1, v \div 2, <<v % 2>> \o done)

\* k * x for an integer k > 0.
DoubleTimes(k, x) ==
    [ neg |-> x.neg, mag |-> RoundToDouble(TimesFrom(x.mag, k, DblWidth, 0, <<>>), FALSE) ]

\* x < y on magnitudes.
MagLess(x, y) ==
    \E i \in DblBit : x[i] < y[i] /\ \A j \in 1 .. i - 1 : x[j] = y[j]

\* x < y on doubles.
DoubleLess(x, y) ==
    IF x.neg /\ ~y.neg THEN TopBit(x.mag) # 0 \/ TopBit(y.mag) # 0
    ELSE IF ~x.neg /\ y.neg THEN FALSE
    ELSE IF x.neg THEN MagLess(y.mag, x.mag)
    ELSE MagLess(x.mag, y.mag)

\* Math.max(x, y); +0 is the larger of the two zeros.
MathMax(x, y) ==
    IF DoubleLess(x, y) THEN y
    ELSE IF DoubleLess(y, x) THEN x
    ELSE IF x.neg THEN y ELSE x

\* x + y on magnitudes, bit by bit from the last one.
RECURSIVE PlusFrom(_, _, _, _, _)
PlusFrom(x, y, i, carry, done) ==
    IF i = 0 \/ carry < 0 \/ Len(done) < 0 THEN done
    ELSE LET v == x[i] + y[i] + carry
         IN  PlusFrom(x, y, i - 1, v \div 2, <<v % 2>> \o done)

\* x - y on magnitudes, x >= y, bit by bit from the last one.
RECURSIVE MinusFrom(_, _, _, _, _)
MinusFrom(x, y, i, borrow, done) ==
    IF i = 0 \/ borrow < 0 \/ Len(done) < 0 THEN done
    ELSE LET v == x[i] - y[i] - borrow
         IN  MinusFrom(x, y, i - 1, IF v < 0 THEN 1 ELSE 0, <<v % 2>> \o done)

\* x - y.  A difference of two equal operands is +0 whatever their sign
\* (round to nearest); -0 - (+0) is the sum of two negative zeros, -0.
DoubleMinus(x, y) ==
    IF x.neg # y.neg
    THEN [ neg |-> x.neg,
           mag |-> RoundToDouble(PlusFrom(x.mag, y.mag, DblWidth, 0, <<>>), FALSE) ]
    ELSE IF MagLess(x.mag, y.mag)
    THEN [ neg |-> ~x.neg,
           mag |-> RoundToDouble(MinusFrom(y.mag, x.mag, DblWidth, 0, <<>>), FALSE) ]
    ELSE IF x.mag = y.mag
    THEN [ neg |-> FALSE, mag |-> MinusFrom(x.mag, y.mag, DblWidth, 0, <<>>) ]
    ELSE [ neg |-> x.neg,
           mag |-> RoundToDouble(MinusFrom(x.mag, y.mag, DblWidth, 0, <<>>), FALSE) ]

\* x / 2.
DoubleHalf(x) ==
    [ neg |-> x.neg, mag |-> [ i \in DblBit |-> IF i = 1 THEN 0 ELSE x.mag[i - 1] ] \o <<>> ]

\* Faulty variant: the smaller ratio is chosen (the image is fitted inside
\* the canvas instead of covering it).
DrawGeometryContain(image, targetWidth, targetHeight) ==
    LET rw == DoubleDivide(targetWidth, image.width)
        rh == DoubleDivide(targetHeight, image.height)
        scale == IF DoubleLess(rw, rh) THEN rw ELSE rh
        scaledWidth  == DoubleTimes(image.width, scale)
        scaledHeight == DoubleTimes(image.height, scale)
    IN  [ scale        |-> scale,
          scaledWidth  |-> scaledWidth,
          scaledHeight |-> scaledHeight,
          offsetX      |-> DoubleHalf(DoubleMinus(ToDouble(targetWidth), scaledWidth)),
          offsetY      |-> DoubleHalf(DoubleMinus(ToDouble(targetHeight), scaledHeight)) ]

\* scale, scaled size and offsets computed by resizeAndCropImage for the
\* drawImage call:
\* scale = Math.max(targetWidth / img.width, targetHeight / img.height),
\* scaledWidth = img.width * scale, offsetX = (targetWidth - scaledWidth) / 2.
DrawGeometry(image, targetWidth, targetHeight) ==
    LET scale == MathMax(DoubleDivide(targetWidth, image.width),
                         DoubleDivide(targetHeight, image.height))
        scaledWidth  == DoubleTimes(image.width, scale)
        scaledHeight == DoubleTimes(image.height, scale)
    IN  [ scale        |-> scale,
          scaledWidth  |-> scaledWidth,
          scaledHeight |-> scaledHeight,
          offsetX      |-> DoubleHalf(DoubleMinus(ToDouble(targetWidth), scaledWidth)),
          offsetY      |-> DoubleHalf(DoubleMinus(ToDouble(targetHeight), scaledHeight)) ]

\* Math.ceil of a double, as an integer.
MathCeil(x) ==
    LET w == DblWidth - DblFrac
        whole == LET F[i \in 0 .. w] == IF i = 0 THEN 0 ELSE 2 * F[i - 1] + x.mag[i]
                 IN  F[w]
        part == \E i \in w + 1 .. DblWidth : x.mag[i] = 1
    IN  IF x.neg THEN -whole ELSE IF part THEN whole + 1 ELSE whole

\* Faulty variant: the canvas is sized to the scaled image, not to the target.
resizeAndCropImageScaledCanvas(image, targetWidth, targetHeight) ==
    LET g == DrawGeometry(image, targetWidth, targetHeight)
    IN  [ width  |-> MathCeil(g.scaledWidth),
          height |-> MathCeil(g.scaledHeight),
          draw   |-> g ]

\* Default width and height of a canvas element.
CanvasDefaultWidth == 300

CanvasDefaultHeight == 150

\* canvas.width = v, canvas.height = v: the attribute is an unsigned long; a
\* negative value is outside its range and the default is stored instead.
CanvasDimension(v, default) == IF v < 0 THEN default ELSE v

\* resizeAndCropImage: canvas.width = targetWidth, canvas.height =
\* targetHeight; the image is drawn scaled and centred over a white fill.
\* Nothing in it tests the targets and no call it makes throws for them.
resizeAndCropImage(image, targetWidth, targetHeight) ==
    [ width  |-> CanvasDimension(targetWidth, CanvasDefaultWidth),
      height |-> CanvasDimension(targetHeight, CanvasDefaultHeight),
      draw   |-> DrawGeometry(image, targetWidth, targetHeight) ]

(***************************************************************************)
(* Normalizer                                                              *)
(***************************************************************************)

\* normalizedData[k] = (byte / 255.0 - mean) / std: two divisions and a
\* difference of doubles, stored as a float32.
NormalizeChannel(byte, m, s) ==
    LET r == IF byte = 0 THEN Zero ELSE Over255[byte]
    IN  Fround(Over(Minus(r, Thousandth(m)), Thousandth(s)))

\* Faulty variant: interleaved (pixel-major) layout.
NormalizedIndexInterleaved(c, i, width, height) ==
    3 * i + c

\* Index, in the planar buffer, of channel c (0, 1, 2) of pixel i.
NormalizedIndex(c, i, width, height) ==
    c * width * height + i

\* One iteration of the loop of extractAndNormalizePixels: pixel i of the
\* RGBA bytes is read at 4 * i (alpha, at 4 * i + 3, is not read) and its three
\* normalized channels are written into the planar buffer.
RECURSIVE NormalizeLoop(_, _, _, _)
NormalizeLoop(i, cv, cfg, out) ==
    IF i >= cv.width * cv.height THEN out
    ELSE LET pixelIndex == i * 4
             r == NormalizeChannel(cv.data[pixelIndex + 1], cfg.mean[1], cfg.std[1])
             g == NormalizeChannel(cv.data[pixelIndex + 2], cfg.mean[2], cfg.std[2])
             b == NormalizeChannel(cv.data[pixelIndex + 3], cfg.mean[3], cfg.std[3])
         IN  NormalizeLoop(i + 1, cv, cfg,
                 [out EXCEPT ![NormalizedIndex(0, i, cv.width, cv.height) + 1] = r,
                             ![NormalizedIndex(1, i, cv.width, cv.height) + 1] = g,
                             ![NormalizedIndex(2, i, cv.width, cv.height) + 1] = b])

\* extractAndNormalizePixels: a zeroed Float32Array of 3 * width * height
\* elements filled by the loop.
extractAndNormalizePixels(cv, cfg) ==
    NormalizeLoop(0, cv, cfg, [k \in 1 .. 3 * cv.width * cv.height |-> <<0, 0>>])

\* createONNXTensor: shape [1, 3, height, width] over the same buffer.
createONNXTensor(data, width, height) ==
    [ dims |-> <<1, 3, height, width>>, data |-> data ]

(***************************************************************************)
(* Denormalizer                                                            *)
(***************************************************************************)

NoImageData == [width |-> 0, height |-> 0, data |-> <<>>]

Throw(message) == [error |-> message, imageData |-> NoImageData]

Return(image) == [error |-> "", imageData |-> image]

\* Faulty variant: alpha is left as new ImageData() initialises it.
AlphaByteUnset == 255 - 255

\* The alpha byte the denormalizers store for every pixel.
AlphaByte == 255

\* Pixel and channel of byte k (from 1) of the RGBA bytes of an ImageData.
PixelOf(k) == (k - 1) \div 4

ChannelOf(k) == ((k - 1) % 4) + 1

\* Math.max(0, Math.min(1, x)).
Clamp01(x) == MathMax0(MathMin1(x))

\* Faulty variant: the scaled value is truncated, not rounded.
RoundedByteTruncated(x) ==
    IF IsNaN(x) THEN 0
    ELSE ToUint8Clamped(FromInt(Floor(Times255(x))))

\* imageData.data[p] = Math.round(x * 255).
RoundedByte(x) == ToUint8Clamped(MathRound(Times255(x)))

\* Faulty variant: the mean is not added back.
DenormalizeChannelNoMean(x, c, configType) ==
    IF configType = "styleTransferNoNorm"
    THEN Clamp01(x)
    ELSE Clamp01(MulAdd(x, PREPROCESSING_CONFIGS[configType].std[c + 1], 0))

\* Denormalization of one channel value in tensorToImageData, by configType:
\* 'styleTransferNoNorm' only clamps, every other profile applies
\* x * std + mean and clamps.
DenormalizeChannel(x, c, configType) ==
    IF configType = "styleTransferNoNorm"
    THEN Clamp01(x)
    ELSE Clamp01(MulAdd(x, ProfileOf(configType).std[c + 1],
                           ProfileOf(configType).mean[c + 1]))

\* One pixel of tensorToImageData (rank 3 and rank 4 read the same indices).
ExplicitPixel(tensor, i, width, height, configType) ==
    LET r == At(tensor.data, i)
        g == At(tensor.data, width * height + i)
        b == At(tensor.data, 2 * width * height + i)
    IN  << RoundedByte(DenormalizeChannel(r, 0, configType)),
           RoundedByte(DenormalizeChannel(g, 1, configType)),
           RoundedByte(DenormalizeChannel(b, 2, configType)),
           AlphaByte >>

\* The rank test made inside the pixel loop of both current denormalizers.
SupportedRank(dims) == Len(dims) = 4 \/ Len(dims) = 3

\* The pixel loop of tensorToImageData from pixel i on: four bytes per pixel.
RECURSIVE ExplicitLoop(_, _, _, _, _)
ExplicitLoop(tensor, i, width, height, configType) ==
    IF i >= width * height THEN <<>>
    ELSE ExplicitPixel(tensor, i, width, height, configType)
             \o ExplicitLoop(tensor, i + 1, width, height, configType)

\* Math.min(...Array.from(data)): every element of the buffer is passed as
\* an argument of one call, and the engine throws a RangeError when the call
\* has more arguments than it takes.  How many it takes, capacity, is not in
\* the code: it comes with the engine and the stack it was given for the run,
\* and can be any number.
SpreadOverflows(length, capacity) == length > capacity

\* Capacities tried: one no buffer of a profile's size fits in, one which
\* holds them all.
ArgumentCapacities == {65536, 1000000}

\* What tensorToImageData (current revision) throws, "" when it returns, in
\* the order of the code: new ImageData(width, height) throws for a zero
\* width or height; the data range is logged with two spread calls; the
\* profile is read from the registry and destructured, a TypeError for
\* undefined (a function or an object is destructured without one, mean and
\* std being undefined); the rank test sits inside the pixel loop and throws
\* in its first iteration; then every branch but that of
\* 'styleTransferNoNorm' reads std[0], a TypeError when std is undefined.
\* overflow is whether the engine throws on the spread.
ExplicitError(dims, width, height, configType, overflow) ==
    IF width = 0 \/ height = 0 THEN "IndexSizeError"
    ELSE IF overflow THEN "RangeError"
    ELSE IF ProfileOf(configType) = Undefined THEN "TypeError"
    ELSE IF ~SupportedRank(dims) THEN "Unsupported tensor shape"
    ELSE IF configType # "styleTransferNoNorm" /\ Lacks(ProfileOf(configType), "std")
    THEN "TypeError"
    ELSE ""

\* tensorToImageData (current revision).
tensorToImageData(tensor, width, height, configType, overflow) ==
    IF ExplicitError(tensor.dims, width, height, configType, overflow) # ""
    THEN Throw(ExplicitError(tensor.dims, width, height, configType, overflow))
    ELSE Return([ width  |-> width,
                  height |-> height,
                  data   |-> ExplicitLoop(tensor, 0, width, height, configType) ])

\* imageData.data[p] = Math.max(0, Math.min(255, x * 255)).
ClampedByte(x) == ToUint8Clamped(MathMax0(MathMin255(Times255(x))))

\* One pixel of tensorToImageData in the revision bundled with
\* ONNXModelHandler: always the styleTransfer profile, no rank test.
HandlerPixel(tensor, i, width, height) ==
    LET cfg == PREPROCESSING_CONFIGS_Handler.styleTransfer
        r == MulAdd(At(tensor.data, i), cfg.std[1], cfg.mean[1])
        g == MulAdd(At(tensor.data, width * height + i), cfg.std[2], cfg.mean[2])
        b == MulAdd(At(tensor.data, 2 * width * height + i), cfg.std[3], cfg.mean[3])
    IN  << ClampedByte(r), ClampedByte(g), ClampedByte(b), AlphaByte >>

\* The pixel loop of that revision from pixel i on.
RECURSIVE HandlerLoop(_, _, _, _)
HandlerLoop(tensor, i, width, height) ==
    IF i >= width * height THEN <<>>
    ELSE HandlerPixel(tensor, i, width, height)
             \o HandlerLoop(tensor, i + 1, width, height)

\* tensorToImageData (revision bundled with ONNXModelHandler).
tensorToImageDataHandler(tensor, width, height) ==
    IF width = 0 \/ height = 0 THEN Throw("IndexSizeError")
    ELSE Return([ width  |-> width,
                  height |-> height,
                  data   |-> HandlerLoop(tensor, 0, width, height) ])

(***************************************************************************)
(* Denormalizer, auto mode                                                 *)
(***************************************************************************)

\* let min = data[0]; for (i = 1 ..) if (data[i] < min) min = data[i];
RECURSIVE ScanMin(_, _, _)
ScanMin(data, i, min) ==
    IF i >= Len(data) THEN min
    ELSE ScanMin(data, i + 1,
                 IF ~IsNaN(min) /\ Less(At(data, i), min) THEN At(data, i) ELSE min)

\* let max = data[0]; for (i = 1 ..) if (data[i] > max) max = data[i];
RECURSIVE ScanMax(_, _, _)
ScanMax(data, i, max) ==
    IF i >= Len(data) THEN max
    ELSE ScanMax(data, i + 1,
                 IF ~IsNaN(max) /\ Less(max, At(data, i)) THEN At(data, i) ELSE max)

DataRange(data) ==
    [ min |-> ScanMin(data, 1, At(data, 0)), max |-> ScanMax(data, 1, At(data, 0)) ]

\* x >= a / b and x <= a / b for an array element x and the literal a / b
\* (-1.1, -0.1, 1.1); false for NaN.
Geq(x, a, b) == ~IsNaN(x) /\ ~Less(x, Literal(a, b))

Leq(x, a, b) == ~IsNaN(x) /\ ~Less(Literal(a, b), x)

\* The branch of the auto-detection taken for a data range.
Detect(dataRange) ==
    IF Geq(dataRange.min, -11, 10) /\ Leq(dataRange.max, 11, 10) THEN "simple"
    ELSE IF Geq(dataRange.min, -1, 10) /\ Leq(dataRange.max, 11, 10) THEN "identity"
    ELSE "range"

\* x - y for two array elements, NaN when one is undefined.
Sub(x, y) ==
    IF IsNaN(x) \/ IsNaN(y) THEN NaN ELSE Minus(x, y)

\* x / y for two such differences: 0 / 0 is NaN, a non-zero value over 0 is
\* an infinity (max - min is never -0).
Div(x, y) ==
    IF IsNaN(x) \/ IsNaN(y) THEN NaN
    ELSE IF y.m = <<>> THEN (IF x.m = <<>> THEN NaN ELSE Infinity(x.neg))
    ELSE Over(x, y)

\* (val + 1) / 2.
HalfOfPlusOne(val) ==
    IF IsNaN(val) THEN NaN ELSE Over(Plus(val, One), FromInt(2))

\* Faulty variant: the unknown-range branch divides by max, not by max - min.
denormalizeFuncByMax(kind, dataRange, val) ==
    IF kind = "simple"
    THEN HalfOfPlusOne(val)
    ELSE IF kind = "identity" THEN val
    ELSE Div(Sub(val, dataRange.min), dataRange.max)

\* Faulty variant: a zero range is skipped and the value passed through.
denormalizeFuncSkipZeroRange(kind, dataRange, val) ==
    IF kind = "simple"
    THEN HalfOfPlusOne(val)
    ELSE IF kind = "identity" THEN val
    ELSE IF dataRange.max = dataRange.min THEN val
    ELSE Div(Sub(val, dataRange.min), Sub(dataRange.max, dataRange.min))

\* denormalizeFunc of the branch taken.
denormalizeFunc(kind, dataRange, val) ==
    IF kind = "simple"
    THEN HalfOfPlusOne(val)
    ELSE IF kind = "identity" THEN val
    ELSE Div(Sub(val, dataRange.min), Sub(dataRange.max, dataRange.min))

\* One pixel of tensorToImageDataAuto.
AutoPixel(tensor, i, width, height, kind, dataRange) ==
    LET r == denormalizeFunc(kind, dataRange, At(tensor.data, i))
        g == denormalizeFunc(kind, dataRange, At(tensor.data, width * height + i))
        b == denormalizeFunc(kind, dataRange, At(tensor.data, 2 * width * height + i))
    IN  << RoundedByte(Clamp01(r)), RoundedByte(Clamp01(g)), RoundedByte(Clamp01(b)),
           AlphaByte >>

\* The pixel loop of tensorToImageDataAuto from pixel i on.
RECURSIVE AutoLoop(_, _, _, _, _, _)
AutoLoop(tensor, i, width, height, kind, dataRange) ==
    IF i >= width * height THEN <<>>
    ELSE AutoPixel(tensor, i, width, height, kind, dataRange)
             \o AutoLoop(tensor, i + 1, width, height, kind, dataRange)

\* tensorToImageDataAuto: the data range is scanned and the branch chosen
\* before the pixel loop; the rank test sits inside the loop.
tensorToImageDataAuto(tensor, width, height) ==
    IF width = 0 \/ height = 0 THEN Throw("IndexSizeError")
    ELSE IF ~SupportedRank(tensor.dims) THEN Throw("Unsupported tensor shape")
    ELSE LET dataRange == DataRange(tensor.data)
             kind == Detect(dataRange)
         IN  Return([ width  |-> width,
                      height |-> height,
                      data   |-> AutoLoop(tensor, 0, width, height, kind, dataRange) ])

(***************************************************************************)
(* State                                                                   *)
(***************************************************************************)

VARIABLES
    pc,              \* stage reached: "loaded", "canvas", "normalized", "tensor",
                     \* "output", "image" or "failed"
    img,             \* the decoded source image: its size, its colour where it is drawn
    target,          \* the target size given to resizeAndCropImage
    drawn,           \* geometry of the drawImage call of resizeAndCropImage
    canvas,          \* the canvas: width, height and RGBA bytes
    config,          \* the configType given to extractAndNormalizePixels
    normalizedData,  \* the Float32Array returned by extractAndNormalizePixels
    tensor,          \* the tensor at hand: dims and data
    call,            \* the denormalizer call made: function and arguments
    imageData,       \* the ImageData a denormalizer returned
    error,           \* the message of the error thrown, "" when none
    requests,        \* the calls in flight on the exported functions, by caller
    session,         \* this.session of the ONNXModelHandler of the pipeline: 0 for
                     \* null, or the session (its place in sessions)
    isOnnxInitialized, \* the module-level flag of initializeOnnxRuntime
    models,          \* ModelManager.models: model name -> handler, 0 when absent
    handlers,        \* the ONNXModelHandler objects made: modelName and session
    sessions,        \* the inference sessions asked for: their handler (0 for the
                     \* handler of the pipeline) and their state: "starting" (create
                     \* not called yet), "creating", "created" or "rejected" (not
                     \* yet with the handler), "open", "failed" or "released"
    calls,           \* the calls in flight on the useONNX hook, by caller
    hook,            \* the state of useONNX: isLoading, error, loadedModels, mounted
    page             \* the state of the Home page and of useWasm

pipelineVars == <<requests, session, isOnnxInitialized>>

appVars == <<models, handlers, sessions, calls, hook, page>>

vars == <<pc, img, target, drawn, canvas, config, normalizedData, tensor, call,
          imageData, error, requests, session, isOnnxInitialized,
          models, handlers, sessions, calls, hook, page>>

NoImage == [width |-> 0, height |-> 0]

NoCanvas == [width |-> 0, height |-> 0, data |-> <<>>]

NoDouble == [neg |-> FALSE, mag |-> <<>>]

NoDraw == [scale |-> NoDouble, scaledWidth |-> NoDouble, scaledHeight |-> NoDouble,
           offsetX |-> NoDouble, offsetY |-> NoDouble]

NoTensor == [dims |-> <<>>, data |-> <<>>]

NoCall == [fn |-> "", width |-> 0, height |-> 0, configType |-> ""]

\* Callers with a call in flight at the same time.
RequestIds == {1, 2}

\* null where a File is expected: the empty name tells it from every file.
NoFile == [name |-> "", decodes |-> FALSE, width |-> 0, height |-> 0, seed |-> 0]

\* No outcome of session.run kept: of the pipeline, of the hook.
NoRun == [error |-> "", tensor |-> NoTensor]

NoOutcome == [ran |-> FALSE, error |-> "", imageData |-> NoImageData]

\* A caller that has not called yet.  pc is "idle", "decoding" (awaiting
\* loadImageFromFile), "decoded" (it has settled), "preprocessed"
\* (preprocessImageForONNX has returned), "inferring" (awaiting session.run),
\* "ran" (it has settled), "denormalizing" (runInference has returned),
\* "throwing" (an awaited function has thrown), "done" or "failed"; ran lists
\* the stages entered, stage is the one entered last.  decode is the state of
\* the promise of loadImageFromFile ("none" before the call, "pending",
\* "complete", "failed"); url is the object URL made for the file ("none",
\* "created", "revoked"); run is what session.run settled with, thrown the
\* message of an error on its way to the caller.
NoRequest ==
    [ kind |-> "", pc |-> "idle", file |-> NoFile, modelType |-> "", configType |-> "",
      decode |-> "none", url |-> "none", run |-> NoRun, thrown |-> "",
      revision |-> "", stage |-> "", ran |-> <<>>, canvas |-> NoCanvas,
      inputTensor |-> NoTensor, outputTensor |-> NoTensor, tensor |-> NoTensor,
      imageData |-> NoImageData, error |-> "" ]

\* No call made, no model loaded.
NoPipeline ==
    /\ requests = [i \in RequestIds |-> NoRequest]
    /\ session = 0
    /\ isOnnxInitialized = FALSE

\* Style models of the page (two of its styleOptions).
ModelNames == {"piccasso", "vangogh"}

\* Callers with a call in flight on the hook at the same time.
CallerIds == {1, 2}

\* The Home page as a caller of the hook.
PageCaller == 0

\* A caller of the hook that has not called yet.  pc is "idle", "done" or
\* "failed", or where the call stands.  For loadModel: "starting" (awaiting
\* initializeOnnxRuntime), "creating" (awaiting InferenceSession.create),
\* "created" or "rejected" (it has settled), "loaded" (handler.loadModel has
\* returned), "mapped" (ModelManager.loadModel has returned).  For
\* processImage: "decoding" (awaiting loadImageFromFile), "decoded" (it has
\* settled), "preprocessed", "inferring" (awaiting session.run), "ran" (it has
\* settled), "denormalizing" (runInference has returned), "returning"
\* (handler.processImage has returned).  For both: "throwing" (an error is on
\* its way to the catch block of the hook).  handler is the ONNXModelHandler
\* the call works on, session the session made for it or passed to
\* session.run, run what the run and the denormalization come to, thrown the
\* message of the error on its way, made the number of calls the caller has
\* made.
NoHookCall ==
    [ kind |-> "", pc |-> "idle", modelName |-> "", file |-> NoFile, handler |-> 0,
      session |-> 0, run |-> NoOutcome, thrown |-> "", imageData |-> NoImageData,
      error |-> "", made |-> 0 ]

\* useONNX after its mount effect: a manager, nothing loaded, no error ("").
NoHook == [isLoading |-> FALSE, error |-> "", loadedModels |-> {}, mounted |-> TRUE]

\* Home at its first render: useWasm is loading, nothing selected; pc is
\* where its processImage stands ("idle", "loading", "processing"),
\* style and file are the selectedStyle and selectedImage its closure holds;
\* imagePreview is the name of the file whose data URL is shown ("" for
\* null), readers the files the FileReaders still read, oldest first.
NoPage ==
    [ wasm |-> "loading", selectedImage |-> NoFile, selectedStyle |-> "piccasso",
      imagePreview |-> "", readers |-> <<>>,
      processedImage |-> NoImageData, isProcessing |-> FALSE, pc |-> "idle",
      style |-> "", file |-> NoFile, alert |-> "" ]

\* A manager with no model, and no call made.
NoApp ==
    /\ models = [name \in ModelNames |-> 0]
    /\ handlers = <<>>
    /\ sessions = <<>>
    /\ calls = [c \in CallerIds \cup {PageCaller} |-> NoHookCall]
    /\ hook = NoHook
    /\ page = NoPage

(***************************************************************************)
(* Inputs                                                                  *)
(***************************************************************************)

\* Colours (R, G, B) of the source images.
ImageColors == { <<0, 85, 170>>, <<100, 185, 14>> }

\* Decoded source images: opaque images of one colour, of every small size.
SrcImages == [width : 1 .. MaxSrc, height : 1 .. MaxSrc, color : ImageColors]

\* Target sizes handed to resizeAndCropImage.
TargetDims == 1 .. MaxDim

\* RGBA bytes of a width x height canvas: the colour of pixel i is fixed by
\* seed.
CanvasData(width, height, seed, alpha) ==
    [ k \in 1 .. 4 * width * height |->
        IF ChannelOf(k) = 4 THEN alpha
        ELSE (seed + 37 * PixelOf(k) + 85 * (ChannelOf(k) - 1)) % 256 ]

\* What drawImage(img, offsetX, offsetY, scaledWidth, scaledHeight) leaves on
\* a width x height canvas for an opaque image of one colour that covers it:
\* the filter reads the nearest edge pixel where it needs one from outside the
\* image, so every resampled pixel has the colour of the image, opaque, and
\* the white fill shows through nowhere.
DrawnData(width, height, color) ==
    [ k \in 1 .. 4 * width * height |->
        IF ChannelOf(k) = 4 THEN 255 ELSE color[ChannelOf(k)] ]

\* Contents of the canvases handed directly to extractAndNormalizePixels.
CanvasSeeds == {0, 10, 72, 145, 250, 255}

\* Canvases of every size with a few contents, and canvases of one pixel in
\* which every byte value occurs in every channel.
SuppliedCanvases ==
    { [width |-> w, height |-> h, data |-> CanvasData(w, h, seed, alpha)] :
          w \in TargetDims, h \in TargetDims, seed \in CanvasSeeds, alpha \in {0, 255} }
        \cup { [width |-> 1, height |-> 1, data |-> CanvasData(1, 1, seed, 255)] :
                   seed \in 0 .. 255 }

\* Element values of the tensors an inference session returns:
\* -2, -1/2, -2^-100, 0, 1/3 (as a float32), 1/2, 1 and 9/8.
OutputValues ==
    { <<-1, -1>>, <<-1, 1>>, <<-1, 100>>, <<0, 0>>, Fround(Literal(1, 3)), <<1, 1>>,
      <<1, 0>>, <<9, 3>> }

\* Shapes of the tensors an inference session returns: ranks 1 to 5.
OutputShapes ==
    { <<3, h, w>> : h \in TargetDims, w \in TargetDims }
        \cup { <<1, 3, h, w>> : h \in TargetDims, w \in TargetDims }
        \cup { <<3>>, <<3, 1>>, <<2, 3, 1, 1>>, <<1, 1, 3, 1, 1>> }

RECURSIVE Product(_)
Product(dims) == IF dims = <<>> THEN 1 ELSE Head(dims) * Product(Tail(dims))

\* Patterns of three values: one value three times, and mixed ones inside
\* and outside [0, 1] and [-1, 1].
OutputPatterns ==
    { <<v, v, v>> : v \in OutputValues }
        \cup { <<Float32(-2, 0), Float32(1, 1), Float32(9, 3)>>,
               <<Float32(-2, 0), Float32(0, 0), Float32(9, 3)>>,
               <<Float32(0, 0), Fround(Literal(1, 3)), Float32(1, 0)>>,
               <<Float32(-1, 1), Fround(Literal(1, 3)), Float32(1, 1)>>,
               <<Fround(Literal(1, 3)), Float32(9, 3), Float32(-1, 1)>>,
               <<Float32(-1, 100), Float32(2, 0), Float32(-2, 0)>> }

\* A tensor of a shape holds Product(shape) elements; its data repeats a
\* pattern of three values.
OutputTensors ==
    { [dims |-> shape, data |-> [k \in 1 .. Product(shape) |-> pat[((k - 1) % 3) + 1]]] :
          shape \in OutputShapes, pat \in OutputPatterns }

(***************************************************************************)
(* Operations                                                              *)
(***************************************************************************)

\* resizeAndCropImage(img, targetWidth, targetHeight)
CallResizeAndCropImage(targetWidth, targetHeight) ==
    /\ pc = "loaded"
    /\ LET g == resizeAndCropImage(img, targetWidth, targetHeight)
       IN  /\ drawn' = g.draw
           /\ canvas' = [width |-> g.width, height |-> g.height,
                         data |-> DrawnData(g.width, g.height, img.color)]
    /\ target' = [width |-> targetWidth, height |-> targetHeight]
    /\ pc' = "canvas"
    /\ UNCHANGED <<img, config, normalizedData, tensor, call, imageData, error>>
    /\ UNCHANGED <<pipelineVars, appVars>>

\* extractAndNormalizePixels(canvas, PREPROCESSING_CONFIGS[configType])
CallExtractAndNormalizePixels(configType) ==
    /\ pc = "canvas"
    /\ normalizedData' = extractAndNormalizePixels(canvas, PREPROCESSING_CONFIGS[configType])
    /\ config' = configType
    /\ pc' = "normalized"
    /\ UNCHANGED <<img, target, drawn, canvas, tensor, call, imageData, error>>
    /\ UNCHANGED <<pipelineVars, appVars>>

\* createONNXTensor(normalizedData, width, height)
CallCreateONNXTensor ==
    /\ pc = "normalized"
    /\ tensor' = createONNXTensor(normalizedData, canvas.width, canvas.height)
    /\ pc' = "tensor"
    /\ UNCHANGED <<img, target, drawn, canvas, config, normalizedData, call, imageData, error>>
    /\ UNCHANGED <<pipelineVars, appVars>>

\* The outcome of a denormalizer call: the image returned or the error thrown.
Outcome(result, made) ==
    /\ imageData' = result.imageData
    /\ error' = result.error
    /\ call' = made
    /\ pc' = IF result.error = "" THEN "image" ELSE "failed"
    /\ UNCHANGED <<img, target, drawn, canvas, config, normalizedData, tensor>>
    /\ UNCHANGED <<pipelineVars, appVars>>

\* tensorToImageData(tensor, width, height, configType), current revision
CallTensorToImageData(width, height, configType) ==
    /\ pc \in {"tensor", "output"}
    /\ \E capacity \in ArgumentCapacities :
           Outcome(tensorToImageData(tensor, width, height, configType,
                                     SpreadOverflows(Len(tensor.data), capacity)),
                   [fn |-> "tensorToImageData", width |-> width, height |-> height,
                    configType |-> configType])

\* tensorToImageData(tensor, width, height), revision bundled with the handler
CallTensorToImageDataHandler(width, height) ==
    /\ pc \in {"tensor", "output"}
    /\ Outcome(tensorToImageDataHandler(tensor, width, height),
               [fn |-> "tensorToImageDataHandler", width |-> width, height |-> height,
                configType |-> "styleTransfer"])

\* tensorToImageDataAuto(tensor, width, height)
CallTensorToImageDataAuto(width, height) ==
    /\ pc \in {"tensor", "output"}
    /\ Outcome(tensorToImageDataAuto(tensor, width, height),
               [fn |-> "tensorToImageDataAuto", width |-> width, height |-> height,
                configType |-> ""])

(***************************************************************************)
(* Preprocessing and the way back: image -> canvas -> tensor -> image      *)
(***************************************************************************)

Init ==
    /\ \/ pc = "loaded" /\ img \in SrcImages /\ canvas = NoCanvas
       \/ pc = "canvas" /\ img = NoImage /\ canvas \in SuppliedCanvases
    /\ target = NoImage
    /\ drawn = NoDraw
    /\ config = ""
    /\ normalizedData = <<>>
    /\ tensor = NoTensor
    /\ call = NoCall
    /\ imageData = NoImageData
    /\ error = ""
    /\ NoPipeline
    /\ NoApp

\* The tensor made from a canvas is turned back with the canvas's own size.
DenormalizeOwn ==
    /\ pc = "tensor"
    /\ \E configType \in ConfigTypes :
           CallTensorToImageData(canvas.width, canvas.height, configType)

DenormalizeOwnHandler ==
    /\ pc = "tensor"
    /\ CallTensorToImageDataHandler(canvas.width, canvas.height)

Next ==
    \/ \E w \in TargetDims, h \in TargetDims : CallResizeAndCropImage(w, h)
    \/ \E configType \in ConfigTypes : CallExtractAndNormalizePixels(configType)
    \/ CallCreateONNXTensor
    \/ DenormalizeOwn
    \/ DenormalizeOwnHandler

Spec == Init /\ [][Next]_vars

(***************************************************************************)
(* Denormalization of the tensors an inference session returns             *)
(***************************************************************************)

InitOutput ==
    /\ pc = "output"
    /\ tensor \in OutputTensors
    /\ img = NoImage
    /\ target = NoImage
    /\ drawn = NoDraw
    /\ canvas = NoCanvas
    /\ config = ""
    /\ normalizedData = <<>>
    /\ call = NoCall
    /\ imageData = NoImageData
    /\ error = ""
    /\ NoPipeline
    /\ NoApp

\* Target sizes handed to a denormalizer.
OutputDims == 1 .. MaxDim

\* Profile names handed to tensorToImageData: the keys of the registry, a
\* name the registry does not have, and two it inherits.
ConfigNames == ConfigTypes \cup {"unknownProfile", "toString", "__proto__"}

DenormalizeOutput ==
    /\ pc = "output"
    /\ \E width \in OutputDims, height \in OutputDims, configType \in ConfigNames :
           CallTensorToImageData(width, height, configType)

DenormalizeOutputHandler ==
    /\ pc = "output"
    /\ \E width \in OutputDims, height \in OutputDims :
           CallTensorToImageDataHandler(width, height)

DenormalizeOutputAuto ==
    /\ pc = "output"
    /\ \E width \in OutputDims, height \in OutputDims :
           CallTensorToImageDataAuto(width, height)

NextOutput ==
    \/ DenormalizeOutput
    \/ DenormalizeOutputHandler
    \/ DenormalizeOutputAuto

SpecOutput == InitOutput /\ [][NextOutput]_vars

(***************************************************************************)
(* Resizing alone: any source, any target                                  *)
(***************************************************************************)

\* Decoded sources: the small ones, and sizes whose ratios are not exact in
\* binary.
ResizeSources ==
    [width : 1 .. MaxSrc, height : 1 .. MaxSrc]
        \cup { [width |-> 100,  height |-> 50],
               [width |-> 50,   height |-> 100],
               [width |-> 55,   height |-> 57],
               [width |-> 49,   height |-> 49],
               [width |-> 224,  height |-> 224],
               [width |-> 640,  height |-> 480],
               [width |-> 1080, height |-> 1920] }

\* Targets: negative, zero and small positive sizes, and the profile's size.
ResizeTargets ==
    ((-1 .. MaxDim) \X (-1 .. MaxDim))
        \cup { <<PREPROCESSING_CONFIGS.default.width, PREPROCESSING_CONFIGS.default.height>> }

InitResize ==
    /\ pc = "loaded"
    /\ img \in ResizeSources
    /\ canvas = NoCanvas
    /\ target = NoImage
    /\ drawn = NoDraw
    /\ config = ""
    /\ normalizedData = <<>>
    /\ tensor = NoTensor
    /\ call = NoCall
    /\ imageData = NoImageData
    /\ error = ""
    /\ NoPipeline
    /\ NoApp

\* resizeAndCropImage(img, targetWidth, targetHeight), followed up to the
\* canvas it returns: its size and the geometry of the drawImage call.  The
\* pixels of the canvas, which only getImageData reveals, are not read here.
CallResizeAndCropImageOnly(targetWidth, targetHeight) ==
    /\ pc = "loaded"
    /\ LET g == resizeAndCropImage(img, targetWidth, targetHeight)
       IN  /\ drawn' = g.draw
           /\ canvas' = [width |-> g.width, height |-> g.height, data |-> <<>>]
    /\ target' = [width |-> targetWidth, height |-> targetHeight]
    /\ pc' = "canvas"
    /\ UNCHANGED <<img, config, normalizedData, tensor, call, imageData, error>>
    /\ UNCHANGED <<pipelineVars, appVars>>

NextResize ==
    \E t \in ResizeTargets : CallResizeAndCropImageOnly(t[1], t[2])

SpecResize == InitResize /\ [][NextResize]_vars

(***************************************************************************)
(* The pipeline: preprocessImageForONNX, runInference, processImage        *)
(***************************************************************************)

\* The buffers of a pipeline call have the size of the profiles, 224 x 224:
\* 200704 canvas bytes, 150528 tensor elements.  A buffer is followed by its
\* size and by what it was made of; what each stage does to the elements is
\* followed, on small buffers, in Spec and SpecOutput.
\*
\* An async function runs up to its first await when it is called.  What it
\* awaits settles in a task of the event loop (img.onload and img.onerror,
\* the end of InferenceSession.create and of session.run); each function that
\* awaits goes on in a microtask of its own, one after the other up the chain
\* of calls.  A task starts only when no microtask is left; a call made by
\* the program around the pipeline may come at any point, from a task or
\* from a microtask of its own.  A hop that only passes a value or an error
\* on, through a function with nothing to do, is taken with the step that
\* follows it.

\* No continuation waits in the microtask queue: the next task may start.
MicrotasksDrained ==
    /\ \A i \in RequestIds :
           requests[i].pc \notin {"decoded", "preprocessed", "throwing", "ran",
                                  "denormalizing"}
    /\ \A s \in 1 .. Len(sessions) :
           sessions[s].state \notin {"starting", "created", "rejected"}
    /\ \A c \in CallerIds \cup {PageCaller} :
           calls[c].pc \notin {"starting", "created", "rejected", "loaded", "mapped",
                               "decoded", "preprocessed", "ran", "denormalizing",
                               "returning", "throwing"}
    /\ ~(page.pc \in {"loading", "processing"}
             /\ calls[PageCaller].pc \in {"done", "failed"})

\* Files handed to the pipeline: one that does not decode (img.onerror) and
\* two images; seed stands for the pixels the browser draws from the file.
PipelineFiles ==
    { [name |-> "broken.png", decodes |-> FALSE, width |-> 0, height |-> 0, seed |-> 0],
      [name |-> "tall.png", decodes |-> TRUE, width |-> 1, height |-> MaxSrc, seed |-> 0],
      [name |-> "wide.png", decodes |-> TRUE, width |-> MaxSrc, height |-> 2,
       seed |-> 100] }

\* throw new Error(`Image preprocessing failed: ${message}`)
PreprocessingFailed(message) ==
    [ error |-> "Image preprocessing failed: " \o message,
      tensor |-> NoTensor, canvas |-> NoCanvas ]

\* The canvas resizeAndCropImage(img, config.width, config.height) returns
\* for a file, by size (canvas.width = targetWidth, canvas.height =
\* targetHeight): its pixels are the browser's drawing of the file.
DrawnCanvas(file, cfg) ==
    [ width  |-> CanvasDimension(cfg.width, CanvasDefaultWidth),
      height |-> CanvasDimension(cfg.height, CanvasDefaultHeight),
      of     |-> <<"drawn", file.seed>> ]

\* createONNXTensor(extractAndNormalizePixels(canvas, config), config.width,
\* config.height), by size: 3 * canvas.width * canvas.height elements
\* under the shape [1, 3, config.height, config.width].
NormalizedTensor(cv, modelType, cfg) ==
    [ dims   |-> <<1, 3, cfg.height, cfg.width>>,
      length |-> 3 * cv.width * cv.height,
      of     |-> <<"normalized", modelType>> \o cv.of ]

\* Faulty variant: the promise resolves on img.onerror as well.
DecodeOutcomeAlwaysResolves(file) == "complete"

\* The promise of loadImageFromFile settles once: img.onload resolves it,
\* img.onerror rejects it.
DecodeOutcome(file) == IF file.decodes THEN "complete" ELSE "failed"

\* preprocessImageForONNX(file, modelType) from the await of
\* loadImageFromFile on, the promise being settled as decode says: a rejected
\* load carries an Event, not an Error, and is reported as 'Unknown error';
\* config is read after the load, and reading config.width of undefined is a
\* TypeError caught by the same handler.  A config without a width and a
\* height (a function, an object) gives resizeAndCropImage undefined sizes:
\* the canvas is 0 x 0, fillRect and drawImage do nothing with NaN, and
\* getImageData(0, 0, 0, 0) in extractAndNormalizePixels throws the
\* IndexSizeError, a DOMException and so an Error, caught by that handler.
PreprocessAfter(decode, file, modelType) ==
    LET cfg == ProfileOf(modelType)
    IN  IF decode = "failed" THEN PreprocessingFailed("Unknown error")
        ELSE IF cfg = Undefined
        THEN PreprocessingFailed("Cannot read properties of undefined (reading 'width')")
        ELSE IF Lacks(cfg, "width") \/ Lacks(cfg, "height")
        THEN PreprocessingFailed("IndexSizeError")
        ELSE [ error  |-> "",
               tensor |-> NormalizedTensor(DrawnCanvas(file, cfg), modelType, cfg),
               canvas |-> DrawnCanvas(file, cfg) ]

\* What preprocessImageForONNX(file, modelType) comes to for a file.
preprocessImageForONNX(file, modelType) ==
    PreprocessAfter(DecodeOutcome(file), file, modelType)

\* Shapes of the output tensors of the model: that of the profile, or one the
\* model happens to have.
PipelineShapes ==
    { <<1, 3, PREPROCESSING_CONFIGS.styleTransfer.height,
              PREPROCESSING_CONFIGS.styleTransfer.width>>,
      <<3, 1>> }

\* What session.run comes back with: an output tensor of the model, one of
\* either shape, or a rejection.
PipelineOutputs ==
    { [dims |-> shape, length |-> Product(shape), of |-> <<"output", content>>] :
          shape \in PipelineShapes, content \in {1} }

RunOutcomes ==
    { [error |-> "", tensor |-> t] : t \in PipelineOutputs }
        \cup { [error |-> "invalid input shape", tensor |-> NoTensor] }

\* tensorToImageData (current revision) on a buffer followed by size.
tensorToImageDataSized(outputTensor, width, height, configType, overflow) ==
    IF ExplicitError(outputTensor.dims, width, height, configType, overflow) # ""
    THEN Throw(ExplicitError(outputTensor.dims, width, height, configType, overflow))
    ELSE Return([ width  |-> width,
                  height |-> height,
                  of     |-> <<"tensorToImageData", configType>> \o outputTensor.of ])

\* tensorToImageData (revision bundled with ONNXModelHandler) on a buffer
\* followed by size.
tensorToImageDataHandlerSized(outputTensor, width, height) ==
    IF width = 0 \/ height = 0 THEN Throw("IndexSizeError")
    ELSE Return([ width  |-> width,
                  height |-> height,
                  of     |-> <<"tensorToImageData", "styleTransfer">> \o outputTensor.of ])

\* Step 3 of processImage: tensorToImageData(outputTensor, config.width,
\* config.height) with config = PREPROCESSING_CONFIGS.styleTransfer; the
\* current revision takes its default configType, 'styleTransferSimple'.
processImageDenormalize(revision, outputTensor, overflow) ==
    LET cfg == PREPROCESSING_CONFIGS.styleTransfer
    IN  IF revision = "current"
        THEN tensorToImageDataSized(outputTensor, cfg.width, cfg.height,
                                    "styleTransferSimple", overflow)
        ELSE tensorToImageDataHandlerSized(outputTensor, cfg.width, cfg.height)

\* A call of processImage(file) on the handler: it runs up to the await of
\* loadImageFromFile inside preprocessImageForONNX(file, 'styleTransfer').
CallProcessImage(i, file, revision) ==
    /\ requests[i].pc = "idle"
    /\ requests' = [requests EXCEPT ![i] =
           [NoRequest EXCEPT !.kind = "processImage", !.pc = "decoding", !.file = file,
                             !.decode = "pending", !.url = "created",
                             !.modelType = "styleTransfer", !.revision = revision,
                             !.stage = "preprocess", !.ran = <<"preprocess">>]]
    /\ UNCHANGED <<session, isOnnxInitialized, sessions>>

\* A call of preprocessImageForONNX(file, modelType) on its own.
CallPreprocessImageForONNX(i, file, modelType) ==
    /\ requests[i].pc = "idle"
    /\ requests' = [requests EXCEPT ![i] =
           [NoRequest EXCEPT !.kind = "preprocessImageForONNX", !.pc = "decoding",
                             !.decode = "pending", !.url = "created",
                             !.file = file, !.modelType = modelType,
                             !.stage = "preprocess", !.ran = <<"preprocess">>]]
    /\ UNCHANGED <<session, isOnnxInitialized, sessions>>

\* A call of tensorToImageData(tensor, width, height, configType) on its own:
\* synchronous, it returns or throws at once.  capacity is the number of
\* arguments the engine takes in this call.
CallTensorToImageDataAlone(i, outputTensor, configType, capacity) ==
    /\ requests[i].pc = "idle"
    /\ LET cfg == PREPROCESSING_CONFIGS.styleTransfer
           r == tensorToImageDataSized(outputTensor, cfg.width, cfg.height, configType,
                                       SpreadOverflows(outputTensor.length, capacity))
       IN  requests' = [requests EXCEPT ![i] =
               [NoRequest EXCEPT !.kind = "tensorToImageData", !.configType = configType,
                                 !.revision = "current", !.outputTensor = outputTensor,
                                 !.stage = "denormalize", !.ran = <<"denormalize">>,
                                 !.pc = IF r.error = "" THEN "done" ELSE "failed",
                                 !.imageData = r.imageData, !.error = r.error]]
    /\ UNCHANGED <<session, isOnnxInitialized, sessions>>

\* The promise of the request is rejected: the caller has the error.
Rejected(r, message) == [r EXCEPT !.pc = "failed", !.error = message, !.thrown = ""]

\* The function the request awaits has thrown: its promise is rejected, and
\* the catch block of the request runs in a later microtask.
Thrown(r, message) == [r EXCEPT !.pc = "throwing", !.thrown = message]

\* img.onload or img.onerror of the request: the promise of loadImageFromFile
\* settles; preprocessImageForONNX, which awaits it, has not gone on yet.
DecodeDone(i) ==
    /\ MicrotasksDrained
    /\ requests[i].pc = "decoding"
    /\ requests' = [requests EXCEPT ![i] =
           [@ EXCEPT !.pc = "decoded", !.decode = DecodeOutcome(requests[i].file)]]
    /\ UNCHANGED <<session, isOnnxInitialized, sessions>>

\* URL.revokeObjectURL(img.src) is the last statement of the try block: it is
\* reached when no statement before it threw.
UrlAfterPreprocessing(pre) == IF pre.error = "" THEN "revoked" ELSE "created"

\* preprocessImageForONNX after the await of loadImageFromFile, to its end:
\* the canvas and the tensor are made and the URL revoked, or the catch block
\* throws.  Called alone its promise settles for the caller; inside
\* processImage its tensor or its error is what processImage awaits.
Preprocessed(r) ==
    LET pre == PreprocessAfter(r.decode, r.file, r.modelType)
        settled == [r EXCEPT !.url = UrlAfterPreprocessing(pre)]
    IN  IF r.kind = "preprocessImageForONNX"
        THEN IF pre.error # "" THEN Rejected(settled, pre.error)
             ELSE [settled EXCEPT !.pc = "done", !.tensor = pre.tensor,
                                  !.canvas = pre.canvas]
        ELSE IF pre.error # "" THEN Thrown(settled, pre.error)
        ELSE [settled EXCEPT !.pc = "preprocessed", !.inputTensor = pre.tensor,
                             !.canvas = pre.canvas]

PreprocessContinues(i) ==
    /\ requests[i].pc = "decoded"
    /\ requests' = [requests EXCEPT ![i] = Preprocessed(requests[i])]
    /\ UNCHANGED <<session, isOnnxInitialized, sessions>>

\* processImage after the await of preprocessImageForONNX: it calls
\* runInference(inputTensor), which runs up to the await of session.run;
\* without a session it throws before its try block.
EnterInference(r, held) ==
    LET entered == [r EXCEPT !.stage = "inference", !.ran = Append(r.ran, "inference")]
    IN  IF held = 0
        THEN Thrown(entered, "Model not loaded. Call loadModel() first.")
        ELSE [entered EXCEPT !.pc = "inferring"]

InferenceEntered(i) ==
    /\ requests[i].pc = "preprocessed"
    /\ requests' = [requests EXCEPT ![i] = EnterInference(requests[i], session)]
    /\ UNCHANGED <<session, isOnnxInitialized, sessions>>

\* session.run of the request settles with an output tensor or a rejection;
\* runInference, which awaits it, has not gone on yet.
InferenceDone(i, outcome) ==
    /\ MicrotasksDrained
    /\ requests[i].pc = "inferring"
    /\ requests' = [requests EXCEPT ![i] = [@ EXCEPT !.pc = "ran", !.run = outcome]]
    /\ UNCHANGED <<session, isOnnxInitialized, sessions>>

\* this.session.outputNames[0] once this.session is null: the TypeError is
\* caught by runInference and rethrown.
OutputNamesOfNull == "Inference failed: Cannot read properties of null (reading 'outputNames')"

\* What runInference throws once session.run has settled, "" when it returns
\* the output tensor: a rejection of the run is rethrown as 'Inference
\* failed: ...'; after a resolved run this.session is read again for
\* outputNames, a TypeError rethrown the same way when dispose() has set it
\* to null in the meantime.
RunError(held, outcome) ==
    IF outcome.error # "" THEN "Inference failed: " \o outcome.error
    ELSE IF held = 0 THEN OutputNamesOfNull
    ELSE ""

\* Faulty variant: a failed run is tried again once.
InferenceSettledRetries(r, held) ==
    IF RunError(held, r.run) # "" /\ Len(r.ran) < 3
    THEN [r EXCEPT !.pc = "inferring", !.ran = Append(r.ran, "inference")]
    ELSE IF RunError(held, r.run) # "" THEN Thrown(r, RunError(held, r.run))
    ELSE [r EXCEPT !.pc = "denormalizing", !.outputTensor = r.run.tensor]

\* runInference after the await of session.run, to its end: it throws, or
\* returns the output tensor processImage awaits.
InferenceSettled(r, held) ==
    IF RunError(held, r.run) # "" THEN Thrown(r, RunError(held, r.run))
    ELSE [r EXCEPT !.pc = "denormalizing", !.outputTensor = r.run.tensor]

\* Faulty variant: the handler releases its session after each run.
SessionAfterInferenceReleased(held) == 0

\* this.session after a run: processImage and runInference only read it.
SessionAfterInference(held) == held

InferenceContinues(i) ==
    /\ requests[i].pc = "ran"
    /\ requests' = [requests EXCEPT ![i] = InferenceSettled(requests[i], session)]
    /\ session' = SessionAfterInference(session)
    /\ UNCHANGED <<isOnnxInitialized, sessions>>

\* processImage after the await of runInference, to its end: the output
\* tensor goes to tensorToImageData, whose image processImage returns and
\* whose error its catch block rethrows at once.
Denormalized(r, overflow) ==
    LET entered == [r EXCEPT !.stage = "denormalize",
                             !.ran = Append(r.ran, "denormalize")]
        d == processImageDenormalize(r.revision, r.outputTensor, overflow)
    IN  IF d.error # "" THEN Rejected(entered, d.error)
        ELSE [entered EXCEPT !.pc = "done", !.imageData = d.imageData]

DenormalizeContinues(i, capacity) ==
    /\ requests[i].pc = "denormalizing"
    /\ requests' = [requests EXCEPT ![i] =
           Denormalized(requests[i],
                        SpreadOverflows(requests[i].outputTensor.length, capacity))]
    /\ UNCHANGED <<session, isOnnxInitialized, sessions>>

\* The catch block of processImage, after preprocessImageForONNX or
\* runInference has thrown: the error is logged and rethrown as it is.
ProcessImageRethrows(i) ==
    /\ requests[i].pc = "throwing"
    /\ requests' = [requests EXCEPT ![i] = Rejected(requests[i], requests[i].thrown)]
    /\ UNCHANGED <<session, isOnnxInitialized, sessions>>

\* A call of loadModel() on the handler, up to its first await, that of
\* initializeOnnxRuntime(): the flag is set, InferenceSession.create is not
\* called yet.
LoadModel ==
    /\ Len(sessions) < MaxLoads
    /\ isOnnxInitialized' = TRUE
    /\ sessions' = Append(sessions, [handler |-> 0, state |-> "starting"])
    /\ UNCHANGED <<requests, session>>

\* loadModel after the await of initializeOnnxRuntime: it calls
\* InferenceSession.create, whether or not the handler has a session
\* already, and awaits it.
CreateCalled(s) ==
    /\ sessions[s].state = "starting"
    /\ sessions' = [sessions EXCEPT ![s].state = "creating"]
    /\ UNCHANGED <<requests, session, isOnnxInitialized>>

\* InferenceSession.create settles for creation s: there is a session, or a
\* rejection; loadModel, which awaits it, has not gone on yet.
CreateSettled(s, created) ==
    /\ MicrotasksDrained
    /\ sessions[s].state = "creating"
    /\ sessions' = [sessions EXCEPT ![s].state = IF created THEN "created" ELSE "rejected"]
    /\ UNCHANGED <<requests, session, isOnnxInitialized>>

\* loadModel after the await of InferenceSession.create, to its end.
\* Resolved: this.session is assigned the new session; a session the handler
\* had is not released.  Rejected: loadModel throws and this.session stays as
\* it was.
LoadModelContinues(s) ==
    /\ sessions[s].state \in {"created", "rejected"}
    /\ sessions' = [sessions EXCEPT ![s].state =
                        IF @ = "created" THEN "open" ELSE "failed"]
    /\ session' = IF sessions[s].state = "created" THEN s ELSE session
    /\ UNCHANGED <<requests, isOnnxInitialized>>

\* dispose() of the handler: the session it has is released and this.session
\* set to null; without a session nothing is done.
Dispose ==
    /\ session # 0
    /\ sessions' = [sessions EXCEPT ![session].state = "released"]
    /\ session' = 0
    /\ UNCHANGED <<requests, isOnnxInitialized>>

\* Profile names handed to the exported functions of the pipeline.
PipelineNames == {"styleTransfer", "styleTransferSimple", "unknownProfile", "toString"}

InitPipeline ==
    /\ pc = "pipeline"
    /\ img = NoImage
    /\ target = NoImage
    /\ drawn = NoDraw
    /\ canvas = NoCanvas
    /\ config = ""
    /\ normalizedData = <<>>
    /\ tensor = NoTensor
    /\ call = NoCall
    /\ imageData = NoImageData
    /\ error = ""
    /\ NoPipeline
    /\ NoApp

NextPipeline ==
    /\ \/ \E i \in RequestIds, file \in PipelineFiles, revision \in {"current", "handler"} :
              CallProcessImage(i, file, revision)
       \/ \E i \in RequestIds, file \in PipelineFiles, modelType \in PipelineNames :
              CallPreprocessImageForONNX(i, file, modelType)
       \/ \E i \in RequestIds, t \in PipelineOutputs, configType \in PipelineNames,
             capacity \in ArgumentCapacities :
              CallTensorToImageDataAlone(i, t, configType, capacity)
       \/ \E i \in RequestIds : DecodeDone(i)
       \/ \E i \in RequestIds : PreprocessContinues(i)
       \/ \E i \in RequestIds : InferenceEntered(i)
       \/ \E i \in RequestIds, outcome \in RunOutcomes : InferenceDone(i, outcome)
       \/ \E i \in RequestIds : InferenceContinues(i)
       \/ \E i \in RequestIds, capacity \in ArgumentCapacities :
              DenormalizeContinues(i, capacity)
       \/ \E i \in RequestIds : ProcessImageRethrows(i)
       \/ LoadModel
       \/ \E s \in 1 .. Len(sessions) : CreateCalled(s)
       \/ \E s \in 1 .. Len(sessions), created \in BOOLEAN : CreateSettled(s, created)
       \/ \E s \in 1 .. Len(sessions) : LoadModelContinues(s)
       \/ Dispose
    /\ UNCHANGED <<pc, img, target, drawn, canvas, config, normalizedData, tensor, call,
                   imageData, error>>
    /\ UNCHANGED <<models, handlers, calls, hook, page>>

SpecPipeline == InitPipeline /\ [][NextPipeline]_vars

(***************************************************************************)
(* The useONNX hook and the ModelManager (SpecHook)                        *)
(***************************************************************************)

\* What InferenceSession.create rejects with, "" when it resolves.
CreateFailures == {"", "failed to fetch"}

\* The message preprocessImageForONNX(file, 'styleTransfer') throws, "" when
\* it returns its tensor: with a registered profile only the load can fail.
DecodeError(file) ==
    IF file.decodes THEN "" ELSE PreprocessingFailed("Unknown error").error

\* Files given to the hook: one that does not decode and one image.
HookFiles ==
    { [name |-> "broken.png", decodes |-> FALSE, width |-> 0, height |-> 0, seed |-> 0],
      [name |-> "tall.png", decodes |-> TRUE, width |-> 1, height |-> MaxSrc, seed |-> 0] }

\* The image handler.processImage returns, by its size: tensorToImageData
\* makes an ImageData of the profile's width and height.
StyledImage ==
    [ width  |-> PREPROCESSING_CONFIGS_Handler.styleTransfer.width,
      height |-> PREPROCESSING_CONFIGS_Handler.styleTransfer.height,
      data   |-> <<>> ]

\* What session.run and the tensorToImageData that follows it come to (ran:
\* the run resolved): the rejection of the run rethrown by runInference, or,
\* with the output tensor, the image or the error tensorToImageData throws
\* ('Unsupported tensor shape' for a rank it does not take, a RangeError in an
\* engine that does not take the tensor's elements as arguments of one call).
ProcessOutcomes ==
    { [ran |-> TRUE,  error |-> "", imageData |-> StyledImage],
      [ran |-> FALSE, error |-> "Inference failed: invalid input shape",
                      imageData |-> NoImageData],
      [ran |-> TRUE,  error |-> "Unsupported tensor shape", imageData |-> NoImageData],
      [ran |-> TRUE,  error |-> "RangeError", imageData |-> NoImageData] }

\* A state setter of the hook called after the unmount changes nothing.
SetState(next) == IF hook.mounted THEN next ELSE hook

\* The call of caller c has returned or thrown, or was never made.
CallEnded(c) == calls[c].pc \in {"idle", "done", "failed"}

\* The call of caller c returns or throws: its locals are gone, the caller
\* has the image or the error.
Ended(c, outcome, image, message) ==
    [calls[c] EXCEPT !.pc = outcome, !.imageData = image, !.error = message,
                     !.file = NoFile, !.handler = 0, !.session = 0,
                     !.run = NoOutcome, !.thrown = ""]

\* The calls made so far by the callers of c1 .. c2.
RECURSIVE CallsMade(_, _)
CallsMade(c1, c2) == IF c1 > c2 THEN 0 ELSE calls[c1].made + CallsMade(c1 + 1, c2)

\* Caller c may call: its last call has ended and there are calls left.  The
\* page makes one call at a time for as long as its button is there.
MayCall(c) == CallEnded(c) /\ (c = PageCaller \/ CallsMade(1, 2) < MaxCalls)

\* The record of a call caller c makes now.
NewCall(c, kind, modelName) ==
    [NoHookCall EXCEPT !.kind = kind, !.modelName = modelName,
                       !.made = IF c = PageCaller THEN 0 ELSE calls[c].made + 1]

\* loadModel(modelName) of the hook up to the first await on its way, that of
\* initializeOnnxRuntime() inside handler.loadModel, through
\* ModelManager.loadModel: a model in the map is only recorded as loaded;
\* otherwise isLoading is set, a handler is made and initializeOnnxRuntime
\* sets its flag.  The callback tests modelManager only: a caller that kept
\* it can call it after the unmount as before.
HookLoadModel(c, modelName) ==
    /\ MayCall(c)
    /\ IF models[modelName] # 0
       THEN /\ hook' = SetState([hook EXCEPT !.loadedModels = @ \cup {modelName}])
            /\ calls' = [calls EXCEPT ![c] =
                   [NewCall(c, "loadModel", modelName) EXCEPT !.pc = "done"]]
            /\ UNCHANGED <<handlers, isOnnxInitialized>>
       ELSE /\ hook' = SetState([hook EXCEPT !.isLoading = TRUE, !.error = ""])
            /\ handlers' = Append(handlers, [modelName |-> modelName, session |-> 0])
            /\ isOnnxInitialized' = TRUE
            /\ calls' = [calls EXCEPT ![c] =
                   [NewCall(c, "loadModel", modelName) EXCEPT
                        !.pc = "starting", !.handler = Len(handlers) + 1]]
    /\ UNCHANGED <<models, sessions>>

\* handler.loadModel after the await of initializeOnnxRuntime: it calls
\* InferenceSession.create and awaits it.
HookCreateCalled(c) ==
    /\ calls[c].pc = "starting"
    /\ calls' = [calls EXCEPT ![c].pc = "creating"]
    /\ UNCHANGED <<models, handlers, sessions, hook, isOnnxInitialized>>

\* InferenceSession.create settles: there is a session, or a rejection;
\* handler.loadModel, which awaits it, has not gone on yet.
HookCreateSettled(c, failure) ==
    /\ MicrotasksDrained
    /\ calls[c].pc = "creating"
    /\ IF failure = ""
       THEN /\ sessions' = Append(sessions, [handler |-> calls[c].handler,
                                             state |-> "open"])
            /\ calls' = [calls EXCEPT ![c].pc = "created",
                                      ![c].session = Len(sessions) + 1]
       ELSE /\ calls' = [calls EXCEPT ![c].pc = "rejected", ![c].thrown = failure]
            /\ UNCHANGED sessions
    /\ UNCHANGED <<models, handlers, hook, isOnnxInitialized>>

\* handler.loadModel after the await of InferenceSession.create, to its end.
\* Resolved: this.session is assigned.  Rejected: the catch block throws
\* 'Failed to load model ...'.
HookHandlerLoaded(c) ==
    /\ calls[c].pc \in {"created", "rejected"}
    /\ IF calls[c].pc = "created"
       THEN /\ handlers' = [handlers EXCEPT ![calls[c].handler].session = calls[c].session]
            /\ calls' = [calls EXCEPT ![c].pc = "loaded"]
       ELSE /\ calls' = [calls EXCEPT
                   ![c].pc = "throwing",
                   ![c].thrown = "Failed to load model " \o calls[c].modelName
                                     \o ": " \o calls[c].thrown]
            /\ UNCHANGED handlers
    /\ UNCHANGED <<models, sessions, hook, isOnnxInitialized>>

\* ModelManager.loadModel after the await of handler.loadModel:
\* this.models.set(modelName, handler), whatever the map holds for the name.
HookManagerLoaded(c) ==
    /\ calls[c].pc = "loaded"
    /\ models' = [models EXCEPT ![calls[c].modelName] = calls[c].handler]
    /\ calls' = [calls EXCEPT ![c].pc = "mapped"]
    /\ UNCHANGED <<handlers, sessions, hook, isOnnxInitialized>>

\* loadModel of the hook after the await of ModelManager.loadModel:
\* setLoadedModels, then setIsLoading(false) in the finally block, and the
\* call returns.
HookLoaded(c) ==
    /\ calls[c].pc = "mapped"
    /\ hook' = SetState([hook EXCEPT !.loadedModels = @ \cup {calls[c].modelName},
                                     !.isLoading = FALSE])
    /\ calls' = [calls EXCEPT ![c] = Ended(c, "done", NoImageData, "")]
    /\ UNCHANGED <<models, handlers, sessions, isOnnxInitialized>>

\* The catch block of the hook's loadModel or processImage, reached by an
\* error that passed the functions below it: setError(message), for
\* loadModel setIsLoading(false) in the finally block, and the call throws.
HookCatches(c) ==
    /\ calls[c].pc = "throwing"
    /\ hook' = SetState(IF calls[c].kind = "loadModel"
                        THEN [hook EXCEPT !.error = calls[c].thrown, !.isLoading = FALSE]
                        ELSE [hook EXCEPT !.error = calls[c].thrown])
    /\ calls' = [calls EXCEPT ![c] = Ended(c, "failed", NoImageData, calls[c].thrown)]
    /\ UNCHANGED <<models, handlers, sessions, isOnnxInitialized>>

\* processImage(modelName, file) of the hook up to the await of
\* loadImageFromFile, through ModelManager.processImage and
\* handler.processImage; without the model in the map it throws before its try.
HookProcessImage(c, modelName, file) ==
    /\ MayCall(c)
    /\ IF models[modelName] = 0
       THEN /\ calls' = [calls EXCEPT ![c] =
                   [NewCall(c, "processImage", modelName) EXCEPT
                        !.pc = "failed",
                        !.error = "Model " \o modelName
                                      \o " not loaded. Load the model first."]]
            /\ UNCHANGED hook
       ELSE /\ hook' = SetState([hook EXCEPT !.error = ""])
            /\ calls' = [calls EXCEPT ![c] =
                   [NewCall(c, "processImage", modelName) EXCEPT
                        !.pc = "decoding", !.file = file,
                        !.handler = models[modelName]]]
    /\ UNCHANGED <<models, handlers, sessions, isOnnxInitialized>>

\* img.onload or img.onerror: the promise of loadImageFromFile settles;
\* preprocessImageForONNX, which awaits it, has not gone on yet.
HookDecodeSettled(c) ==
    /\ MicrotasksDrained
    /\ calls[c].pc = "decoding"
    /\ calls' = [calls EXCEPT ![c].pc = "decoded"]
    /\ UNCHANGED <<models, handlers, sessions, hook, isOnnxInitialized>>

\* preprocessImageForONNX after the await of loadImageFromFile, to its end:
\* it returns its tensor or throws.
HookPreprocessed(c) ==
    /\ calls[c].pc = "decoded"
    /\ calls' = IF DecodeError(calls[c].file) # ""
                THEN [calls EXCEPT ![c].pc = "throwing",
                                   ![c].thrown = DecodeError(calls[c].file)]
                ELSE [calls EXCEPT ![c].pc = "preprocessed"]
    /\ UNCHANGED <<models, handlers, sessions, hook, isOnnxInitialized>>

\* handler.processImage after the await of preprocessImageForONNX:
\* runInference reads this.session; with a session it calls session.run and
\* awaits it, without one it throws.
HookInferenceEntered(c) ==
    /\ calls[c].pc = "preprocessed"
    /\ LET held == handlers[calls[c].handler].session
       IN  calls' = IF held = 0
                    THEN [calls EXCEPT ![c].pc = "throwing",
                                       ![c].thrown =
                                           "Model not loaded. Call loadModel() first."]
                    ELSE [calls EXCEPT ![c].pc = "inferring", ![c].session = held]
    /\ UNCHANGED <<models, handlers, sessions, hook, isOnnxInitialized>>

\* session.run settles; runInference, which awaits it, has not gone on yet.
HookInferenceSettled(c, outcome) ==
    /\ MicrotasksDrained
    /\ calls[c].pc = "inferring"
    /\ calls' = [calls EXCEPT ![c].pc = "ran", ![c].run = outcome]
    /\ UNCHANGED <<models, handlers, sessions, hook, isOnnxInitialized>>

\* runInference after the await of session.run, to its end: the rejection of
\* the run is rethrown; after a run that resolved this.session is read again,
\* for outputNames: the handler disposed of in the meantime has none, and
\* runInference throws; else it returns the output tensor.
HookInferenceContinues(c) ==
    /\ calls[c].pc = "ran"
    /\ LET held == handlers[calls[c].handler].session
           message == IF ~calls[c].run.ran THEN calls[c].run.error
                      ELSE IF held = 0 THEN OutputNamesOfNull
                      ELSE ""
       IN  calls' = IF message # ""
                    THEN [calls EXCEPT ![c].pc = "throwing", ![c].thrown = message]
                    ELSE [calls EXCEPT ![c].pc = "denormalizing"]
    /\ UNCHANGED <<models, handlers, sessions, hook, isOnnxInitialized>>

\* handler.processImage after the await of runInference, to its end:
\* tensorToImageData makes the image, which is returned, or throws.
HookDenormalized(c) ==
    /\ calls[c].pc = "denormalizing"
    /\ calls' = IF calls[c].run.error # ""
                THEN [calls EXCEPT ![c].pc = "throwing", ![c].thrown = calls[c].run.error]
                ELSE [calls EXCEPT ![c].pc = "returning"]
    /\ UNCHANGED <<models, handlers, sessions, hook, isOnnxInitialized>>

\* processImage of the hook after the await of ModelManager.processImage,
\* which passed the image on: the call returns it.
HookReturns(c) ==
    /\ calls[c].pc = "returning"
    /\ calls' = [calls EXCEPT ![c] = Ended(c, "done", calls[c].run.imageData, "")]
    /\ UNCHANGED <<models, handlers, sessions, hook, isOnnxInitialized>>

\* The handlers in the manager's map.
InMap == { models[modelName] : modelName \in ModelNames } \ {0}

\* dispose() of handler h: its session, if it has one, is released and
\* forgotten.
Disposed(h) == [handlers[h] EXCEPT !.session = 0]

\* The cleanup of the hook's effect, at unmount: ModelManager.disposeAll
\* disposes the handlers in the map and clears the map.
DisposeAll ==
    /\ hook.mounted
    /\ hook' = [hook EXCEPT !.mounted = FALSE]
    /\ handlers' = [h \in 1 .. Len(handlers) |->
                       IF h \in InMap THEN Disposed(h) ELSE handlers[h]] \o <<>>
    /\ sessions' = [s \in 1 .. Len(sessions) |->
                       IF /\ sessions[s].handler \in InMap
                          /\ handlers[sessions[s].handler].session = s
                       THEN [sessions[s] EXCEPT !.state = "released"]
                       ELSE sessions[s]] \o <<>>
    /\ models' = [modelName \in ModelNames |-> 0]
    /\ UNCHANGED <<calls, isOnnxInitialized>>

InitHook ==
    /\ pc = "hook"
    /\ img = NoImage
    /\ target = NoImage
    /\ drawn = NoDraw
    /\ canvas = NoCanvas
    /\ config = ""
    /\ normalizedData = <<>>
    /\ tensor = NoTensor
    /\ call = NoCall
    /\ imageData = NoImageData
    /\ error = ""
    /\ NoPipeline
    /\ NoApp

\* The steps of the calls of caller c that follow an await.
HookContinues(c) ==
    \/ HookCreateCalled(c)
    \/ HookHandlerLoaded(c)
    \/ HookManagerLoaded(c)
    \/ HookLoaded(c)
    \/ HookPreprocessed(c)
    \/ HookInferenceEntered(c)
    \/ HookInferenceContinues(c)
    \/ HookDenormalized(c)
    \/ HookReturns(c)
    \/ HookCatches(c)

\* What the calls of caller c await settles.
HookSettles(c) ==
    \/ \E failure \in CreateFailures : HookCreateSettled(c, failure)
    \/ HookDecodeSettled(c)
    \/ \E outcome \in ProcessOutcomes : HookInferenceSettled(c, outcome)

NextHook ==
    /\ \/ \E c \in CallerIds, modelName \in ModelNames : HookLoadModel(c, modelName)
       \/ \E c \in CallerIds, modelName \in ModelNames, file \in HookFiles :
              HookProcessImage(c, modelName, file)
       \/ \E c \in CallerIds : HookSettles(c)
       \/ \E c \in CallerIds : HookContinues(c)
       \/ DisposeAll
    /\ UNCHANGED <<pc, img, target, drawn, canvas, config, normalizedData, tensor, call,
                   imageData, error, requests, session, page>>

SpecHook == InitHook /\ [][NextHook]_vars

(***************************************************************************)
(* The Home page (SpecPage)                                                *)
(***************************************************************************)

\* isLoading and error of the page's render.
PageIsLoading == page.wasm = "loading" \/ hook.isLoading \/ page.isProcessing

PageError == page.wasm = "error" \/ hook.error # ""

\* The render, while the page is mounted, returns the spinner when loading
\* with no image selected, else the 'System Error' card when there is an
\* error, else the page itself.
LoadingScreen == hook.mounted /\ PageIsLoading /\ page.selectedImage = NoFile

ErrorScreen == hook.mounted /\ ~LoadingScreen /\ PageError

MainScreen == hook.mounted /\ ~LoadingScreen /\ ~PageError

\* The process button is rendered and enabled.
ButtonAvailable ==
    MainScreen /\ page.selectedImage # NoFile /\ ~page.isProcessing

\* The import of the WASM module by useWasm settles.
WasmSettled(loaded) ==
    /\ MicrotasksDrained
    /\ page.wasm = "loading"
    /\ hook.mounted
    /\ page' = [page EXCEPT !.wasm = IF loaded THEN "ready" ELSE "error"]
    /\ UNCHANGED <<models, handlers, sessions, calls, hook, isOnnxInitialized>>

\* handleImageUpload / handleDrop: the user gives a file, whether an image
\* the browser decodes or not: it is selected, and a FileReader starts to
\* read it for the preview.
HandleImageUpload(file) ==
    /\ MicrotasksDrained
    /\ MainScreen
    /\ Len(page.readers) < MaxReaders
    /\ page' = [page EXCEPT !.selectedImage = file,
                            !.readers = Append(@, file.name)]
    /\ UNCHANGED <<models, handlers, sessions, calls, hook, isOnnxInitialized>>

\* Sequence q without its element k.
Without(q, k) == SubSeq(q, 1, k - 1) \o SubSeq(q, k + 1, Len(q))

\* reader.onload of reader k, whatever the bytes of the file are and whatever
\* is selected by now: setImagePreview(data URL of the file it read).
ReaderLoaded(k) ==
    /\ MicrotasksDrained
    /\ k \in 1 .. Len(page.readers)
    /\ page' = [page EXCEPT !.readers = Without(@, k),
                            !.imagePreview = IF hook.mounted THEN page.readers[k] ELSE @]
    /\ UNCHANGED <<models, handlers, sessions, calls, hook, isOnnxInitialized>>

\* The remove button, rendered over the preview when imagePreview is set.
RemoveImage ==
    /\ MicrotasksDrained
    /\ MainScreen
    /\ page.imagePreview # ""
    /\ page' = [page EXCEPT !.selectedImage = NoFile, !.imagePreview = "",
                            !.processedImage = NoImageData]
    /\ UNCHANGED <<models, handlers, sessions, calls, hook, isOnnxInitialized>>

\* The style radio buttons.
SelectStyle(modelName) ==
    /\ MicrotasksDrained
    /\ MainScreen
    /\ page.selectedStyle # modelName
    /\ page' = [page EXCEPT !.selectedStyle = modelName]
    /\ UNCHANGED <<models, handlers, sessions, calls, hook, isOnnxInitialized>>

\* processImage of the page, from the click to its first await: the load of
\* the model when isModelLoaded(selectedStyle) is false, else the hook's
\* processImage.  The closure keeps the style and the image of this render.
ClickProcess ==
    /\ MicrotasksDrained
    /\ ButtonAvailable
    /\ IF models[page.selectedStyle] = 0
       THEN /\ HookLoadModel(PageCaller, page.selectedStyle)
            /\ page' = [page EXCEPT !.isProcessing = TRUE, !.pc = "loading", !.alert = "",
                                    !.style = page.selectedStyle,
                                    !.file = page.selectedImage]
       ELSE /\ HookProcessImage(PageCaller, page.selectedStyle, page.selectedImage)
            /\ page' = [page EXCEPT !.isProcessing = TRUE, !.pc = "processing",
                                    !.alert = "", !.style = page.selectedStyle,
                                    !.file = page.selectedImage]

\* processImage of the page after the await of loadModel(selectedStyle) that
\* returned: processImageWithONNX(selectedStyle, selectedImage) is called,
\* whether the page is still mounted or not, and awaited.
PageContinue ==
    /\ page.pc = "loading"
    /\ calls[PageCaller].pc = "done"
    /\ HookProcessImage(PageCaller, page.style, page.file)
    /\ page' = [page EXCEPT !.pc = "processing"]

\* Faulty variant: the catch block ends the request without the finally.
PageFailedNoFinally(message) ==
    [page EXCEPT !.pc = "idle", !.style = "", !.file = NoFile,
                 !.alert = "Error processing image: " \o message]

\* The catch and finally blocks of the page's processImage: the alert, then
\* setIsProcessing(false).  A state setter of the page called after the
\* unmount changes nothing.
PageFailed(message) ==
    [page EXCEPT !.pc = "idle", !.style = "", !.file = NoFile,
                 !.isProcessing = IF hook.mounted THEN FALSE ELSE @,
                 !.alert = "Error processing image: " \o message]

\* processImage of the page after an await whose call threw.
PageCatches ==
    /\ page.pc \in {"loading", "processing"}
    /\ calls[PageCaller].pc = "failed"
    /\ page' = PageFailed(calls[PageCaller].error)
    /\ UNCHANGED <<models, handlers, sessions, calls, hook, isOnnxInitialized>>

\* The end of the try block, then the finally: the result is shown.
PageSucceeded(image) ==
    [page EXCEPT !.pc = "idle", !.style = "", !.file = NoFile,
                 !.isProcessing = IF hook.mounted THEN FALSE ELSE @,
                 !.processedImage = IF hook.mounted THEN image ELSE @]

\* processImage of the page after the await of processImageWithONNX that
\* returned its image.
PageShows ==
    /\ page.pc = "processing"
    /\ calls[PageCaller].pc = "done"
    /\ page' = PageSucceeded(calls[PageCaller].imageData)
    /\ UNCHANGED <<models, handlers, sessions, calls, hook, isOnnxInitialized>>

\* The page is left: the cleanup of the effect of useONNX runs disposeAll; a
\* request of the page that awaits goes on when what it awaits settles.
PageUnmount ==
    /\ DisposeAll
    /\ UNCHANGED page

InitPage ==
    /\ pc = "page"
    /\ img = NoImage
    /\ target = NoImage
    /\ drawn = NoDraw
    /\ canvas = NoCanvas
    /\ config = ""
    /\ normalizedData = <<>>
    /\ tensor = NoTensor
    /\ call = NoCall
    /\ imageData = NoImageData
    /\ error = ""
    /\ NoPipeline
    /\ NoApp

\* What the page does not touch.
PageLeaves ==
    UNCHANGED <<pc, img, target, drawn, canvas, config, normalizedData, tensor, call,
                imageData, error, requests, session>>

\* The awaited operations of a request settle and the functions that await
\* them go on, up to the page's processImage.
PageSettles ==
    /\ \/ HookSettles(PageCaller) /\ UNCHANGED page
       \/ HookContinues(PageCaller) /\ UNCHANGED page
       \/ PageContinue
       \/ PageCatches
       \/ PageShows
    /\ PageLeaves

\* What the user and the WASM import do.
PageEvents ==
    /\ \/ \E loaded \in BOOLEAN : WasmSettled(loaded)
       \/ \E file \in HookFiles : HandleImageUpload(file)
       \/ \E k \in 1 .. MaxReaders : ReaderLoaded(k)
       \/ RemoveImage
       \/ \E modelName \in ModelNames : SelectStyle(modelName)
       \/ ClickProcess
       \/ PageUnmount
    /\ PageLeaves

NextPage == PageSettles \/ PageEvents

SpecPage == InitPage /\ [][NextPage]_vars

\* The awaited operations settle and the microtasks run: a pending load,
\* decode or run is not left pending for ever.
SpecPageFair == SpecPage /\ WF_vars(PageSettles)

(***************************************************************************)
(* Properties of preprocessing and of the round trip (Spec)                *)
(***************************************************************************)

Abs(x) == IF x < 0 THEN -x ELSE x

\* Pixels of the canvas at hand.
CanvasPixels == 0 .. canvas.width * canvas.height - 1

\* C1: for every source size and every positive target (W, H), the canvas
\* resizeAndCropImage returns is exactly W wide and H high.
C1_CanvasHasTargetSize ==
    target # NoImage =>
        /\ canvas.width = target.width
        /\ canvas.height = target.height
        /\ Len(canvas.data) = 4 * target.width * target.height

\* A canvas resized from a source of another aspect ratio and size.
C1_Witness ==
    /\ pc = "canvas"
    /\ img.width = 3 /\ img.height = 1
    /\ target = [width |-> 2, height |-> 2]
    /\ canvas.width = 2 /\ canvas.height = 2
    /\ drawn.scaledWidth = ToDouble(6)

\* v, an element of the Float32Array, is the stored value of
\* x = (byte / 255 - mean) / std, mean = m / Milli and std = s / Milli, that
\* is of (Milli * byte - 255 * m) / (255 * s): the two differ by no more than
\* the rounding to 24 significant bits allows, | v - x | * 2^24 <= | x |,
\* stated in exact arithmetic over the denominator 255 * s.
IsNormalized(v, byte, m, s) ==
    LET above == FromInt(Milli * byte - 255 * m)
        below == FromInt(255 * s)
        distance == Magnitude(ExactSum(ExactProduct(FromFloat32(v), below), Negated(above)))
    IN  ~Less(Magnitude(above), ExactProduct(distance, FromInt(2^Significand32)))

\* The canvas at hand with every alpha byte replaced by a.
WithAlpha(a) ==
    [canvas EXCEPT !.data = [k \in DOMAIN canvas.data |->
                                IF ChannelOf(k) = 4 THEN a ELSE canvas.data[k]]]

\* C2: extractAndNormalizePixels returns 3 * width * height elements in planar
\* order: element i is the normalized red byte of pixel i, element
\* width * height + i the green one, element 2 * width * height + i the blue
\* one; the alpha byte influences no element.
C2_PlanarNormalization ==
    pc = "normalized" =>
        LET n == canvas.width * canvas.height
            cfg == PREPROCESSING_CONFIGS[config]
        IN  /\ Len(normalizedData) = 3 * n
            /\ \A i \in CanvasPixels, c \in 0 .. 2 :
                   IsNormalized(normalizedData[c * n + i + 1], canvas.data[4 * i + c + 1],
                                cfg.mean[c + 1], cfg.std[c + 1])
            /\ \A a \in {0, 77, 255} :
                   extractAndNormalizePixels(WithAlpha(a), cfg) = normalizedData

\* A normalized canvas of two pixels with different colours and alpha 0; the
\* first element is (10 / 255 - 0.485) / 0.229 = -1.9466... as a float32.
C2_Witness ==
    /\ pc = "normalized"
    /\ config = "default"
    /\ canvas.width = 2 /\ canvas.height = 1
    /\ canvas.data = <<10, 95, 180, 0, 47, 132, 217, 0>>
    /\ Len(normalizedData) = 6
    /\ normalizedData[1] = Float32(-16329737, 23)
    /\ Less(FromFloat32(normalizedData[1]), FromFloat32(normalizedData[2]))
    /\ Less(FromFloat32(normalizedData[2]), FromFloat32(normalizedData[3]))

\* The denormalizer call at hand was given the profile the tensor was
\* normalized with (the handler's revision always uses styleTransfer, whose
\* numbers are those of default).
SameProfile ==
    \/ call.fn = "tensorToImageData" /\ call.configType = config
    \/ call.fn = "tensorToImageDataHandler" /\ config \in {"default", "styleTransfer"}

\* C3: explicit denormalization of the normalized tensor with the same
\* profile reproduces every R, G and B byte of the pixel grid within +/-1.
C3_RoundTrip ==
    (pc = "image" /\ config # "" /\ SameProfile) =>
        /\ imageData.width = canvas.width
        /\ imageData.height = canvas.height
        /\ \A i \in CanvasPixels, c \in 0 .. 2 :
               Abs(imageData.data[4 * i + c + 1] - canvas.data[4 * i + c + 1]) <= 1

\* A round trip through the ImageNet profile of a canvas with bytes from
\* both ends of the range.
C3_Witness ==
    /\ pc = "image"
    /\ config = "default"
    /\ call.fn = "tensorToImageData" /\ call.configType = "default"
    /\ canvas.width = 2 /\ canvas.height = 2
    /\ canvas.data[1] = 250 /\ canvas.data[3] = 164
    /\ imageData.data[1] = 250 /\ imageData.data[3] = 164

\* C13 (as claimed): the Normalizer only hands on a buffer made from a canvas
\* of the profile's width and height, so the buffer has exactly
\* 3 * profile.width * profile.height elements.
C13_CanvasMatchesProfile ==
    (pc \in {"normalized", "tensor"} /\ config # "") =>
        /\ canvas.width = PREPROCESSING_CONFIGS[config].width
        /\ canvas.height = PREPROCESSING_CONFIGS[config].height
        /\ Len(normalizedData) = 3 * PREPROCESSING_CONFIGS[config].width
                                   * PREPROCESSING_CONFIGS[config].height

(***************************************************************************)
(* Properties of the denormalizers (SpecOutput)                            *)
(***************************************************************************)

\* Pixels of the image the call at hand was asked for.
CallPixels == 0 .. call.width * call.height - 1

\* Index, in the tensor buffer, of channel c of pixel i for the call at hand.
Plane(c, i) == c * call.width * call.height + i

\* The tensor holds an element for channel c of pixel i.
InBuffer(c, i) == Plane(c, i) < Len(tensor.data)

\* The number element k (from 0) of the tensor at hand holds.
Element(k) == FromFloat32(tensor.data[k + 1])

\* byte = round(clamp(x, 0, 1) * 255) for a finite number x, the product
\* y = clamp(x, 0, 1) * 255 being the double the program computes and the
\* rounding stated as an inequality: byte - 1/2 <= y < byte + 1/2.
IsRoundedByte(byte, x) ==
    LET clamped == IF x.neg THEN Zero ELSE IF Less(One, x) THEN One ELSE x
        y == Times(clamped, FromInt(255))
        doubled == ExactSum(y, y)
    IN  /\ ~Less(doubled, FromInt(2 * byte - 1))
        /\ Less(doubled, FromInt(2 * byte + 1))

\* mean and std the explicit call at hand denormalizes with.
CallProfile ==
    IF call.fn = "tensorToImageData" THEN PREPROCESSING_CONFIGS[call.configType]
    ELSE PREPROCESSING_CONFIGS_Handler.styleTransfer

ExplicitCall == call.fn \in {"tensorToImageData", "tensorToImageDataHandler"}

\* C4: in explicit mode the byte of channel c of pixel i is
\* round(clamp(data[c * width * height + i] * std[c] + mean[c], 0, 1) * 255),
\* mean and std being those of the profile of the call.
C4_ExplicitByte ==
    (pc = "image" /\ ExplicitCall) =>
        \A i \in CallPixels, c \in 0 .. 2 :
            InBuffer(c, i) =>
                IsRoundedByte(imageData.data[4 * i + c + 1],
                              Plus(Times(Element(Plane(c, i)),
                                         Thousandth(CallProfile.std[c + 1])),
                                   Thousandth(CallProfile.mean[c + 1])))

\* A rank-3 tensor -2, 0, 9/8 denormalized with the [-1, 1] profile: red is
\* clamped below, green is the tie 127.5 rounded up, blue is clamped above.
C4_Witness ==
    /\ pc = "image"
    /\ call.fn = "tensorToImageData" /\ call.configType = "styleTransferSimple"
    /\ call.width = 1 /\ call.height = 1
    /\ tensor.dims = <<3, 1, 1>>
    /\ tensor.data = <<Float32(-2, 0), Float32(0, 0), Float32(9, 3)>>
    /\ imageData.data = <<0, 128, 255, 255>>

AutoCall == call.fn = "tensorToImageDataAuto"

\* C5 (as claimed): in auto mode a tensor whose values all lie in [0, 1] goes
\* through the identity: every byte is round(clamp(v, 0, 1) * 255).
C5_UnitRangeIsIdentity ==
    (/\ pc = "image"
     /\ AutoCall
     /\ \A k \in DOMAIN tensor.data :
            ~Element(k - 1).neg /\ ~Less(One, Element(k - 1))) =>
        \A i \in CallPixels, c \in 0 .. 2 :
            InBuffer(c, i) =>
                IsRoundedByte(imageData.data[4 * i + c + 1], Element(Plane(c, i)))

\* C6 (as claimed): auto mode on a [3, 2, 2] tensor filled with 0.5 gives
\* R, G and B bytes all 128.
C6_HalfGivesByte128 ==
    (/\ pc = "image"
     /\ AutoCall
     /\ call.width = 2 /\ call.height = 2
     /\ tensor.dims = <<3, 2, 2>>
     /\ \A k \in DOMAIN tensor.data : tensor.data[k] = Float32(1, 1)) =>
        \A i \in CallPixels, c \in 0 .. 2 : imageData.data[4 * i + c + 1] = 128

\* Smallest and largest element of the tensor at hand.
TensorMin ==
    FromFloat32(CHOOSE v \in {tensor.data[k] : k \in DOMAIN tensor.data} :
                    \A k \in DOMAIN tensor.data : ~Less(Element(k - 1), FromFloat32(v)))

TensorMax ==
    FromFloat32(CHOOSE v \in {tensor.data[k] : k \in DOMAIN tensor.data} :
                    \A k \in DOMAIN tensor.data : ~Less(FromFloat32(v), Element(k - 1)))

\* The range of the tensor at hand lies in neither tolerance band.
OutsideBands == Less(TensorMin, Literal(-11, 10)) \/ Less(Literal(11, 10), TensorMax)

\* (x - min) / (max - min) for min < max.
Stretched(x) == Over(Minus(x, TensorMin), Minus(TensorMax, TensorMin))

\* C7: in auto mode, with the range in neither band and min < max, values
\* are mapped by (v - min) / (max - min): min gives byte 0, max gives byte
\* 255, every byte lies in 0 .. 255.
C7_UnknownRangeIsStretched ==
    (pc = "image" /\ AutoCall /\ OutsideBands /\ Less(TensorMin, TensorMax)) =>
        /\ \A k \in DOMAIN imageData.data : imageData.data[k] \in 0 .. 255
        /\ \A i \in CallPixels, c \in 0 .. 2 :
               InBuffer(c, i) =>
                   LET v == Element(Plane(c, i))
                       byte == imageData.data[4 * i + c + 1]
                   IN  /\ IsRoundedByte(byte, Stretched(v))
                       /\ v = TensorMin => byte = 0
                       /\ v = TensorMax => byte = 255

\* -2, 1/2, 9/8 in auto mode: 0, round(255 * 2.5 / 3.125) = 204 and 255.
C7_Witness ==
    /\ pc = "image"
    /\ AutoCall
    /\ call.width = 1 /\ call.height = 1
    /\ tensor.data = <<Float32(-2, 0), Float32(1, 1), Float32(9, 3)>>
    /\ imageData.data = <<0, 204, 255, 255>>

\* Every element of the tensor at hand is the same value.
Uniform == \A j \in DOMAIN tensor.data, k \in DOMAIN tensor.data :
               tensor.data[j] = tensor.data[k]

\* C8: in auto mode a tensor of equal elements that reaches the unknown-range
\* branch gives R, G and B bytes all 0 and the call returns without an error.
C8_ZeroRangeGivesZero ==
    (/\ AutoCall
     /\ SupportedRank(tensor.dims)
     /\ tensor.data # <<>>
     /\ Uniform
     /\ OutsideBands) =>
        /\ pc = "image"
        /\ error = ""
        /\ Len(imageData.data) = 4 * call.width * call.height
        /\ \A i \in CallPixels, c \in 0 .. 2 : imageData.data[4 * i + c + 1] = 0

\* A 2 x 2 plane of 9/8 everywhere, in auto mode.
C8_Witness ==
    /\ pc = "image"
    /\ AutoCall
    /\ call.width = 2 /\ call.height = 2
    /\ tensor.dims = <<1, 3, 2, 2>>
    /\ \A k \in DOMAIN tensor.data : tensor.data[k] = Float32(9, 3)
    /\ \A i \in CallPixels, c \in 0 .. 2 : imageData.data[4 * i + c + 1] = 0

\* C9: every pixel of every image a denormalizer returns has alpha 255.
C9_AlphaOpaque ==
    pc = "image" =>
        /\ Len(imageData.data) = 4 * call.width * call.height
        /\ \A i \in CallPixels : imageData.data[4 * i + 4] = 255

\* An auto-mode image of four pixels whose colour bytes are not all 255.
C9_Witness ==
    /\ pc = "image"
    /\ AutoCall
    /\ call.width = 2 /\ call.height = 2
    /\ imageData.data[1] = 0
    /\ \A i \in CallPixels : imageData.data[4 * i + 4] = 255

\* C10 (as claimed): a tensor of rank 1, 2 or 5 given to a denormalizer raises
\* the unsupported-rank error and no image is returned.
C10_BadRankRejected ==
    (call.fn # "" /\ Len(tensor.dims) \in {1, 2, 5}) =>
        /\ pc = "failed"
        /\ error = "Unsupported tensor shape"
        /\ imageData = NoImageData

\* C11 (as claimed): a rank-4 tensor whose leading (batch) dimension is not 1
\* is rejected by a denormalizer with the unsupported-rank error and no image
\* is returned.
C11_BatchMustBeOne ==
    (call.fn # "" /\ Len(tensor.dims) = 4 /\ tensor.dims[1] # 1) =>
        /\ pc = "failed"
        /\ error = "Unsupported tensor shape"
        /\ imageData = NoImageData

\* C25 (as claimed): a denormalizer reads the tensor buffer inside its length
\* only: a tensor with fewer than 3 * width * height elements is rejected
\* with an error and no image, and a call that returns an image found an
\* element for every channel of every pixel.
C25_ReadsInsideBuffer ==
    /\ (call.fn # "" /\ Len(tensor.data) < 3 * call.width * call.height) =>
           (pc = "failed" /\ imageData = NoImageData)
    /\ pc = "image" => \A i \in CallPixels, c \in 0 .. 2 : InBuffer(c, i)

(***************************************************************************)
(* Properties of the resizer (SpecResize)                                  *)
(***************************************************************************)

\* resizeAndCropImage has been called and has returned or thrown.
Resized == pc # "loaded"

\* C12 (as claimed): resizeAndCropImage called with a target width or height
\* that is zero or negative raises an invalid-dimensions error and returns no
\* canvas.
C12_NonPositiveTargetRejected ==
    (Resized /\ (target.width <= 0 \/ target.height <= 0)) =>
        /\ pc = "failed"
        /\ error # ""
        /\ canvas = NoCanvas

\* The double x is n / d to within a thousandth.
Close(x, n, d) ==
    MagLess(DoubleMinus(x, DoubleDivide(n, d)).mag, DoubleDivide(1, 1000).mag)

\* The scenario: a 100 x 50 source resized to 224 x 224.
Scenario100x50 ==
    /\ Resized
    /\ img = [width |-> 100, height |-> 50]
    /\ target = [width |-> 224, height |-> 224]

\* C19 (as claimed): in the scenario the scale is 2.24, the scaled size is
\* 224 x 112, the vertical offset is negative and the canvas is 224 x 224.
C19_ScaleIsSmallerRatio ==
    Scenario100x50 =>
        /\ Close(drawn.scale, 224, 100)
        /\ Close(drawn.scaledWidth, 224, 1)
        /\ Close(drawn.scaledHeight, 112, 1)
        /\ DoubleLess(drawn.offsetY, ToDouble(0))
        /\ canvas.width = 224 /\ canvas.height = 224

\* C19 (amended): in the scenario the scale is max(2.24, 4.48) = 4.48, the
\* scaled size is 448 x 224, the horizontal offset is -112 (a horizontal
\* crop), the vertical offset is 0, all up to the rounding of doubles, and the
\* canvas is exactly 224 x 224.
C19_ScaleIsLargerRatio ==
    Scenario100x50 =>
        /\ Close(drawn.scale, 448, 100)
        /\ Close(drawn.scaledWidth, 448, 1)
        /\ Close(drawn.scaledHeight, 224, 1)
        /\ Close(drawn.offsetX, -112, 1)
        /\ Close(drawn.offsetY, 0, 1)
        /\ canvas.width = 224 /\ canvas.height = 224

\* The scenario has run: the image is drawn from left of the canvas.
C19_Witness ==
    /\ Scenario100x50
    /\ pc = "canvas"
    /\ drawn.offsetX.neg
    /\ DoubleLess(ToDouble(447), drawn.scaledWidth)

\* C20 (as claimed): for positive source and target sizes the scaled image is
\* at least as wide and as high as the target, so neither offset is positive
\* and the drawn image covers the whole canvas.
C20_ScaledImageCoversCanvas ==
    (Resized /\ target.width > 0 /\ target.height > 0) =>
        /\ ~DoubleLess(drawn.scaledWidth, ToDouble(target.width))
        /\ ~DoubleLess(drawn.scaledHeight, ToDouble(target.height))
        /\ ~DoubleLess(ToDouble(0), drawn.offsetX)
        /\ ~DoubleLess(ToDouble(0), drawn.offsetY)

(***************************************************************************)
(* Properties of the pipeline (SpecPipeline)                               *)
(***************************************************************************)

\* The call of caller i has returned or thrown.
Settled(i) == requests[i].pc \in {"done", "failed"}

\* The call of caller i threw and gave its caller nothing.
FailedEmpty(i) ==
    /\ requests[i].pc = "failed"
    /\ requests[i].error # ""
    /\ requests[i].tensor = NoTensor
    /\ requests[i].imageData = NoImageData

\* The call of caller i failed where it looked its profile up: it threw, gave
\* nothing, and did nothing before (no object URL made, no decode started)
\* that could fail in its place (the range log of the denormalizer).
FailedAtLookup(i) ==
    /\ FailedEmpty(i)
    /\ requests[i].url = "none"
    /\ requests[i].decode = "none"
    /\ requests[i].error # "RangeError"

\* C14 (as claimed): a call that selects a profile name which is not in the
\* registry fails with a configuration error, the error of the lookup of the
\* name, in preprocessing (preprocessImageForONNX) and in explicit
\* denormalization (tensorToImageData); it does not go on without a profile
\* or with another one.
C14_UnknownProfileFails ==
    \A i \in RequestIds :
        /\ (/\ requests[i].kind = "preprocessImageForONNX"
            /\ requests[i].modelType \notin ConfigTypes) => FailedAtLookup(i)
        /\ (/\ requests[i].kind = "tensorToImageData"
            /\ requests[i].configType \notin ConfigTypes) => FailedAtLookup(i)

\* C15 (as claimed): no denormalize call fails because of the length of the
\* buffer: tensorToImageData on a tensor of the profile's shape, with the
\* profile's size and a registered profile name, returns its image, alone and
\* as the last step of processImage.
C15_NoFailureFromLength ==
    \A i \in RequestIds :
        (/\ requests[i].stage = "denormalize"
         /\ requests[i].revision = "current"
         /\ requests[i].outputTensor.dims = <<1, 3, 224, 224>>
         /\ requests[i].kind = "tensorToImageData" =>
                requests[i].configType \in ConfigTypes) =>
            /\ requests[i].pc = "done"
            /\ requests[i].error = ""

\* What the stages throw, before any wrapping.
Messages ==
    { "Unknown error", "Cannot read properties of undefined (reading 'width')",
      "Model not loaded. Call loadModel() first.", "invalid input shape",
      "Cannot read properties of null (reading 'outputNames')",
      "IndexSizeError", "RangeError", "TypeError", "Unsupported tensor shape" }

\* How an error names each stage ('preprocess -> inference -> postprocess').
StageLabel ==
    [ preprocess  |-> "Image preprocessing failed: ",
      inference   |-> "Inference failed: ",
      denormalize |-> "Image postprocessing failed: " ]

\* C16 (as claimed): every error processImage surfaces carries the name of
\* the stage that failed, whichever of the three stages raised it.
C16_ErrorNamesStage ==
    \A i \in RequestIds :
        (requests[i].kind = "processImage" /\ requests[i].pc = "failed") =>
            \E m \in Messages : requests[i].error = StageLabel[requests[i].stage] \o m

\* The orders in which a call enters stages: each at most once, in order.
StageOrders ==
    { <<>>, <<"preprocess">>, <<"preprocess", "inference">>,
      <<"preprocess", "inference", "denormalize">>, <<"denormalize">> }

\* C17: when a stage of a request fails the request ends in an error: it
\* returns no tensor and no image, no stage was entered twice or out of
\* order, the only step of a request whose stage has thrown is the one that
\* hands the error to the caller, and nothing of the request changes
\* afterwards (no later stage, no retry).
C17_FailureIsTerminal ==
    /\ [](\A i \in RequestIds :
             /\ requests[i].ran \in StageOrders
             /\ requests[i].error # "" => FailedEmpty(i)
             /\ requests[i].pc = "failed" =>
                    /\ FailedEmpty(i)
                    /\ requests[i].stage = requests[i].ran[Len(requests[i].ran)])
    /\ [][\A i \in RequestIds :
             /\ requests[i].pc = "failed" => requests'[i] = requests[i]
             /\ requests[i].pc = "throwing" =>
                    requests'[i] \in {requests[i],
                                      Rejected(requests[i], requests[i].thrown)}]_vars

\* Request 1 failed in inference after preprocessing; request 2, started
\* with it, went on to its image.
C17_Witness ==
    /\ requests[1].kind = "processImage"
    /\ requests[1].pc = "failed"
    /\ requests[1].ran = <<"preprocess", "inference">>
    /\ requests[1].error = "Inference failed: invalid input shape"
    /\ requests[1].imageData = NoImageData
    /\ requests[2].kind = "processImage"
    /\ requests[2].pc = "done"
    /\ requests[2].imageData # NoImageData

\* What a finished processImage request holds is what its own file and the
\* output tensor returned to it give.
OwnResult(i) ==
    LET r == requests[i]
        pre == preprocessImageForONNX(r.file, "styleTransfer")
    IN  /\ r.canvas = pre.canvas
        /\ r.canvas.of = <<"drawn", r.file.seed>>
        /\ r.inputTensor = pre.tensor
        /\ r.imageData =
               processImageDenormalize(r.revision, r.outputTensor, FALSE).imageData
        /\ r.imageData # NoImageData

\* C18: two processImage requests, interleaved in every way, share no
\* variable that either writes: a step of one leaves the other request, the
\* handler's session and the initialisation flag as they were, and the image
\* each returns is the one its own file and output tensor give.
C18_RequestsIsolated ==
    /\ [](\A i \in RequestIds :
             (requests[i].kind = "processImage" /\ requests[i].pc = "done") => OwnResult(i))
    /\ [][\A i \in RequestIds :
             requests'[i] # requests[i] =>
                 /\ session' = session
                 /\ isOnnxInitialized' = isOnnxInitialized
                 /\ \A j \in RequestIds \ {i} : requests'[j] = requests[j]]_vars

\* Request 1 has returned its image while request 2, on another file, still
\* awaits its inference.
C18_Witness ==
    /\ requests[1].kind = "processImage" /\ requests[1].pc = "done"
    /\ requests[2].kind = "processImage" /\ requests[2].pc = "inferring"
    /\ requests[1].file # requests[2].file
    /\ requests[1].inputTensor # requests[2].inputTensor
    /\ OwnResult(1)

\* The request of caller i loads an image (processImage or
\* preprocessImageForONNX; tensorToImageData alone loads none).
LoadsImage(i) == requests[i].kind \in {"processImage", "preprocessImageForONNX"}

\* The request of caller i holds nothing made from an image.
NothingFromImage(i) ==
    /\ requests[i].canvas = NoCanvas
    /\ requests[i].inputTensor = NoTensor
    /\ requests[i].tensor = NoTensor
    /\ requests[i].outputTensor = NoTensor
    /\ requests[i].imageData = NoImageData

\* C21: the decode of a request is pending from the call on, settles as
\* exactly one of complete (the file decodes) or failed (it does not) and
\* keeps that state; while it is pending nothing has been resized, normalized
\* or made a tensor, and after a failed decode the request goes to its
\* failure, through the preprocess stage only, with no canvas and no tensor.
C21_DecodeSettlesOnce ==
    /\ [](\A i \in RequestIds : LoadsImage(i) =>
             /\ requests[i].decode \in {"pending", "complete", "failed"}
             /\ requests[i].decode = "pending" <=> requests[i].pc = "decoding"
             /\ requests[i].decode = "complete" <=>
                    (requests[i].pc # "decoding" /\ requests[i].file.decodes)
             /\ requests[i].decode = "pending" => NothingFromImage(i)
             /\ requests[i].decode = "failed" =>
                    /\ NothingFromImage(i)
                    /\ requests[i].pc \in {"decoded", "throwing", "failed"}
                    /\ requests[i].ran = <<"preprocess">>)
    /\ [][\A i \in RequestIds :
             requests[i].decode \in {"complete", "failed"} =>
                 requests'[i].decode = requests[i].decode]_vars

\* The decode of request 1 failed and left nothing; that of request 2
\* completed and its tensor was made afterwards.
C21_Witness ==
    /\ requests[1].kind = "preprocessImageForONNX"
    /\ requests[1].decode = "failed"
    /\ requests[1].error = "Image preprocessing failed: Unknown error"
    /\ NothingFromImage(1)
    /\ requests[2].kind = "preprocessImageForONNX"
    /\ requests[2].decode = "complete"
    /\ requests[2].pc = "done"
    /\ requests[2].tensor.dims = <<1, 3, 224, 224>>
    /\ requests[2].tensor.length = 3 * 224 * 224

\* C26 (as claimed): the object URL loadImageFromFile created for a request
\* is revoked once the preprocessing of the request has ended, however it
\* ended; nothing holds the URL afterwards, so it is then or never.
C26_ObjectUrlRevoked ==
    \A i \in RequestIds :
        (LoadsImage(i) /\ requests[i].pc \notin {"decoding", "decoded"}) =>
            requests[i].url = "revoked"

(***************************************************************************)
(* Properties of the hook and of the manager (SpecHook)                    *)
(***************************************************************************)

\* The sessions created for a model name.
SessionsOf(modelName) ==
    { s \in 1 .. Len(sessions) : handlers[sessions[s].handler].modelName = modelName }

\* Session s is the session of the handler the map holds for its model.
HeldByMap(s) ==
    LET h == sessions[s].handler
    IN  models[handlers[h].modelName] = h /\ handlers[h].session = s

\* Session s has just been created for a loadModel call that has not put
\* its handler in the map yet.
OnItsWayToMap(s) ==
    \E c \in CallerIds :
        calls[c].session = s /\ calls[c].pc \in {"created", "loaded"}

\* C22 (as claimed): however loadModel calls for one model name interleave,
\* at most one session is created for the name, and while the hook is mounted
\* every session created is the one the manager's map holds for its name, or
\* is on its way there.
C22_OneSessionPerName ==
    hook.mounted =>
        /\ \A modelName \in ModelNames : Cardinality(SessionsOf(modelName)) <= 1
        /\ \A s \in 1 .. Len(sessions) : HeldByMap(s) \/ OnItsWayToMap(s)

\* C23 (as claimed): once disposeAll has run the manager's map is empty and
\* every session created is released, whatever was in flight.
C23_NothingLeftAfterDisposeAll ==
    ~hook.mounted =>
        /\ \A modelName \in ModelNames : models[modelName] = 0
        /\ \A s \in 1 .. Len(sessions) : sessions[s].state = "released"

\* C24 (as claimed): the session a runInference call is awaiting session.run
\* on is not released.
C24_NoReleaseDuringInference ==
    \A c \in CallerIds :
        calls[c].pc = "inferring" => sessions[calls[c].session].state = "open"

\* C27 (as claimed): while the hook is mounted, isLoading is true in every
\* state in which a loadModel call has not returned or thrown yet.
C27_LoadingWhileAwaiting ==
    (/\ hook.mounted
     /\ \E c \in CallerIds : calls[c].kind = "loadModel" /\ ~CallEnded(c)) =>
        hook.isLoading

(***************************************************************************)
(* Properties of the page (SpecPageFair)                                   *)
(***************************************************************************)

\* C28: every request started from the page sets isProcessing back to false,
\* whether the model load, the preprocessing, the inference or the
\* denormalization fails or the image is shown, given that the awaited
\* operations settle; and on the mounted page isProcessing is true exactly
\* while a request runs.  A request that outlives the page runs to its
\* finally block all the same, where the setter finds no state to change.
C28_ProcessingFlagCleared ==
    /\ [](hook.mounted => (page.isProcessing <=> page.pc # "idle"))
    /\ (page.isProcessing ~>
            (~page.isProcessing \/ (~hook.mounted /\ page.pc = "idle")))

\* A request failed in inference, the alert was shown and the flag is false
\* again.
C28_Witness ==
    /\ page.alert = "Error processing image: Inference failed: invalid input shape"
    /\ ~page.isProcessing
    /\ page.pc = "idle"
    /\ hook.error = "Inference failed: invalid input shape"

\* C29 (as claimed): after a request has failed with its error recorded by
\* the hook, the page, for as long as it is mounted, comes back to a state
\* where the process button is there with an image selected.
C29_ButtonComesBack ==
    (hook.mounted /\ hook.error # "" /\ ~page.isProcessing) ~>
        (ButtonAvailable \/ ~hook.mounted)

====
